---------------------------- MODULE Spec2Model ----------------------------
(***************************************************************************)
(* A model of the scan orchestrator of scanner-service                     *)
(* (src/scanner-service/src/scanners/security_scanner.py):                 *)
(*   - SecurityScanner._deduplicate_vulnerabilities, the merge of the      *)
(*     directory-tool ("professional") findings with the per-file regex    *)
(*     findings, and the final sort;                                       *)
(*   - SecurityScanner._init_scanners, the choice of the scanner rosters;  *)
(*   - SecurityScanner.scan, step by step: the clone into a temporary      *)
(*     directory, the enumeration of the files, the directory scanners,    *)
(*     the file loop, dedup, the exception handler and the cleanup, for    *)
(*     one scan and for two scans at once.                                 *)
(*                                                                         *)
(* A Vulnerability is a record of the fields the orchestrator reads        *)
(* (severity, category, file_path, start_line, fix_confidence) and its     *)
(* title, which stands for the fields it never reads.  A file path is the  *)
(* sequence of its code points, so that Python's string comparison is the  *)
(* lexicographic order computed by StrLess.  A confidence is a number of   *)
(* hundredths (0.85 is 85); an unset confidence (None) is NoConfidence.    *)
(***************************************************************************)
EXTENDS Integers, Sequences, FiniteSets, TLC

VARIABLES
    pc,                 \* position of the modelled run
    professional_vulns, \* scan(): findings of the directory scanners
    regex_vulns,        \* scan(): findings of the file scanners
    all_vulns,          \* the list _deduplicate_vulnerabilities returned
    prev_vulns,         \* the list returned by the pass before a second pass
    request,            \* the ScanRequest: scan_type, scanners (list or None)
    scanners,           \* self.scanners, as the class names of the instances
    directory_scanners, \* self.directory_scanners, likewise
    invoked,            \* the scanners _scan_file called on one file, in order
    orchestrator,       \* per scan: the SecurityScanner instance (self)
    result,             \* per scan: the ScanResult scan() builds and returns
    frame,              \* per scan: position and locals of scan() and callees
    disk,               \* the temporary directories: existence and content
    trace,              \* per scan: what the run did, as the log would show
    Config,             \* config.py: the limits read from the environment
    data                \* per scan: the JSON body of the POST /scan behind it

vars == <<pc, professional_vulns, regex_vulns, all_vulns, prev_vulns,
          request, scanners, directory_scanners, invoked,
          orchestrator, result, frame, disk, trace, Config, data>>

dedupVars == <<professional_vulns, regex_vulns, all_vulns, prev_vulns>>
selectVars == <<request, scanners, directory_scanners, invoked>>
scanVars == <<orchestrator, result, frame, disk, trace>>

---------------------------------------------------------------------------
(* Bounds of the model *)

\* the most findings (tool and regex together) one scan collects
MaxFindings == 3

\* the most categories a request's scanner list holds
MaxCategories == 3

---------------------------------------------------------------------------
(* models.py: Vulnerability *)

\* fix_confidence: Optional[float] = None
NoConfidence == -1

\* the places findings are reported at, as (file_path, start_line): "a.py"
\* lines 10 and 55, "ab.py" line 10, the paths as code points
Locations ==
    { << <<97, 46, 112, 121>>, 10 >>,
      << <<97, 46, 112, 121>>, 55 >>,
      << <<97, 98, 46, 112, 121>>, 10 >> }

\* the rows of the file scanners' PATTERNS tables the model draws from
\* (xss_scanner.py PATTERNS; secrets_scanner.py PATTERNS, which carry no
\* 'confidence' and whose Vulnerability is built without fix_confidence)
PatternRules ==
    { [title |-> "Potential XSS via innerHTML with user input",
       severity |-> "HIGH", category |-> "XSS", fix_confidence |-> 85],
      [title |-> "React dangerouslySetInnerHTML without sanitization",
       severity |-> "MEDIUM", category |-> "XSS", fix_confidence |-> 75],
      [title |-> "Flask render_template_string with user input",
       severity |-> "CRITICAL", category |-> "XSS", fix_confidence |-> 95],
      [title |-> "API Key Detected",
       severity |-> "HIGH", category |-> "SECRETS_EXPOSURE",
       fix_confidence |-> NoConfidence] }

\* SemgrepScanner.SEVERITY_MAP
SEVERITY_MAP ==
    [s \in {"ERROR", "WARNING", "INFO"} |->
        CASE s = "ERROR" -> "CRITICAL"
          [] s = "WARNING" -> "HIGH"
          [] s = "INFO" -> "MEDIUM"]

\* SemgrepScanner.CATEGORY_MAP, the rows the model draws from
CATEGORY_MAP ==
    [c \in {"xss", "secrets"} |->
        IF c = "xss" THEN "XSS" ELSE "SECRETS_EXPOSURE"]

\* the semgrep results the model draws from: (severity, metadata category)
SemgrepResults ==
    { <<"WARNING", "xss">>, <<"WARNING", "secrets">>, <<"INFO", "secrets">> }

\* SemgrepScanner._parse_semgrep_results: one result to one Vulnerability
ParseSemgrepResult(res, path, line) ==
    [title |-> "semgrep",
     severity |-> SEVERITY_MAP[res[1]],
     category |-> CATEGORY_MAP[res[2]],
     file_path |-> path,
     start_line |-> line,
     fix_confidence |-> 90]

\* XSSScanner.scan / SecretsScanner.scan: one match to one Vulnerability
PatternVulnerability(rule, path, line) ==
    [title |-> rule.title,
     severity |-> rule.severity,
     category |-> rule.category,
     file_path |-> path,
     start_line |-> line,
     fix_confidence |-> rule.fix_confidence]

\* SecretsScanner.scan: every finding it emits
SecretsFindings ==
    { PatternVulnerability(r, at[1], at[2]) :
        r \in {q \in PatternRules : q.category = "SECRETS_EXPOSURE"},
        at \in Locations }

ToolFindings ==
    { ParseSemgrepResult(r, at[1], at[2]) : r \in SemgrepResults, at \in Locations }

PatternFindings ==
    { PatternVulnerability(r, at[1], at[2]) : r \in PatternRules, at \in Locations }

---------------------------------------------------------------------------
(* SecurityScanner._deduplicate_vulnerabilities *)

\* confidence = vuln.fix_confidence if vuln.fix_confidence is not None else 0.7
DefaultConfidence == 70

\* if confidence >= 0.95
HighConfidence == 95

\* if range_key in found_ranges and confidence < 0.85
OverlapConfidence == 85

Confidence(v) ==
    IF v.fix_confidence # NoConfidence THEN v.fix_confidence ELSE DefaultConfidence

\* key = (vuln.file_path, vuln.start_line, vuln.category.value)
IssueKey(v) == <<v.file_path, v.start_line, v.category>>

\* range_key = (vuln.file_path, vuln.category.value)
RangeKey(v) == <<v.file_path, v.category>>

\* found_issues: the set built from professional_vulns
FoundIssues(prof) == { IssueKey(prof[i]) : i \in 1..Len(prof) }

\* FoundRanges with found_ranges assigned, not added to: the last key only
FoundRangesLastOnly(prof) ==
    IF prof = <<>> THEN {} ELSE { RangeKey(prof[Len(prof)]) }

\* found_ranges: the set built from professional_vulns
FoundRanges(prof) == { RangeKey(prof[i]) : i \in 1..Len(prof) }

\* KeepRegex with the high-confidence test ahead of the exact-match test
KeepRegexHighFirst(v, found_issues, found_ranges) ==
    IF Confidence(v) >= HighConfidence THEN TRUE
    ELSE IF IssueKey(v) \in found_issues THEN FALSE
    ELSE IF RangeKey(v) \in found_ranges /\ Confidence(v) < OverlapConfidence THEN FALSE
    ELSE TRUE

\* KeepRegex with the overlap test written confidence <= 0.85
KeepRegexInclusiveThreshold(v, found_issues, found_ranges) ==
    IF IssueKey(v) \in found_issues THEN FALSE
    ELSE IF Confidence(v) >= HighConfidence THEN TRUE
    ELSE IF RangeKey(v) \in found_ranges /\ Confidence(v) <= OverlapConfidence THEN FALSE
    ELSE TRUE

\* KeepRegex without the exact-match test
KeepRegexNoExactMatch(v, found_issues, found_ranges) ==
    IF Confidence(v) >= HighConfidence THEN TRUE
    ELSE IF RangeKey(v) \in found_ranges /\ Confidence(v) < OverlapConfidence THEN FALSE
    ELSE TRUE

\* KeepRegex with the overlap test not looking at found_ranges
KeepRegexNoRangeTest(v, found_issues, found_ranges) ==
    IF IssueKey(v) \in found_issues THEN FALSE
    ELSE IF Confidence(v) >= HighConfidence THEN TRUE
    ELSE IF Confidence(v) < OverlapConfidence THEN FALSE
    ELSE TRUE

\* the body of the filter loop: TRUE when vuln is appended to filtered_regex
KeepRegex(v, found_issues, found_ranges) ==
    IF IssueKey(v) \in found_issues THEN FALSE
    ELSE IF Confidence(v) >= HighConfidence THEN TRUE
    ELSE IF RangeKey(v) \in found_ranges /\ Confidence(v) < OverlapConfidence THEN FALSE
    ELSE TRUE

\* filtered_regex
FilterRegex(prof, regex) ==
    SelectSeq(regex, LAMBDA v : KeepRegex(v, FoundIssues(prof), FoundRanges(prof)))

\* severity_order.get(v.severity.value, 5)
SeverityOrder(sev) ==
    CASE sev = "CRITICAL" -> 0
      [] sev = "HIGH" -> 1
      [] sev = "MEDIUM" -> 2
      [] sev = "LOW" -> 3
      [] sev = "INFO" -> 4
      [] OTHER -> 5

\* Python's str < str: lexicographic on code points, a proper prefix first
RECURSIVE StrLess(_, _)
StrLess(s, t) ==
    IF t = <<>> THEN FALSE
    ELSE IF s = <<>> THEN TRUE
    ELSE IF Head(s) # Head(t) THEN Head(s) < Head(t)
    ELSE StrLess(Tail(s), Tail(t))

\* KeyLess with the key written (severity_order, start_line, file_path)
KeyLessLineBeforePath(a, b) ==
    IF SeverityOrder(a.severity) # SeverityOrder(b.severity)
    THEN SeverityOrder(a.severity) < SeverityOrder(b.severity)
    ELSE IF a.start_line # b.start_line THEN a.start_line < b.start_line
    ELSE StrLess(a.file_path, b.file_path)

\* the sort key: (severity_order, file_path, start_line), compared as tuples
KeyLess(a, b) ==
    IF SeverityOrder(a.severity) # SeverityOrder(b.severity)
    THEN SeverityOrder(a.severity) < SeverityOrder(b.severity)
    ELSE IF a.file_path # b.file_path THEN StrLess(a.file_path, b.file_path)
    ELSE a.start_line < b.start_line

\* InsertVuln of a sort that is not stable: v goes before its ties
InsertVulnBeforeTies(sorted, v) ==
    LET k == Cardinality({ i \in 1..Len(sorted) : KeyLess(sorted[i], v) })
    IN  SubSeq(sorted, 1, k) \o <<v>> \o SubSeq(sorted, k + 1, Len(sorted))

\* InsertVuln of a sort that keeps one finding per sort key: v replaces its tie
InsertVulnOnePerKey(sorted, v) ==
    LET k == Cardinality({ i \in 1..Len(sorted) : KeyLess(sorted[i], v) })
        m == Cardinality({ i \in 1..Len(sorted) : ~KeyLess(v, sorted[i]) })
    IN  SubSeq(sorted, 1, k) \o <<v>> \o SubSeq(sorted, m + 1, Len(sorted))

\* one step of a stable sort: v goes after every element not greater than it
InsertVuln(sorted, v) ==
    LET k == Cardinality({ i \in 1..Len(sorted) : ~KeyLess(v, sorted[i]) })
    IN  SubSeq(sorted, 1, k) \o <<v>> \o SubSeq(sorted, k + 1, Len(sorted))

\* SortVulns that takes the elements from the last to the first: ties come
\* out in reverse input order
RECURSIVE SortVulnsReversed(_)
SortVulnsReversed(s) ==
    IF s = <<>> THEN <<>>
    ELSE InsertVuln(SortVulnsReversed(Tail(s)), Head(s))

\* all_vulns.sort(key=...): list.sort is stable
RECURSIVE SortVulns(_)
SortVulns(s) ==
    IF s = <<>> THEN <<>>
    ELSE InsertVuln(SortVulns(SubSeq(s, 1, Len(s) - 1)), s[Len(s)])

\* the whole function
Deduplicate(prof, regex) == SortVulns(prof \o FilterRegex(prof, regex))

---------------------------------------------------------------------------
(* The state of a run of SecurityScanner.scan()                            *)

\* the scans the model can run, by scan_id
ScanIds == {1, 2}

\* the names tempfile.mkdtemp(prefix='gitscan_') can return
DirNames == {"gitscan_a", "gitscan_b"}

\* Python's None, where a string is expected
None == "None"

\* a clone_url is its scheme and the rest; this is a clone_url of None
NoUrl == [scheme |-> None, rest |-> ""]

\* ScanRequest, the fields the orchestrator reads
ScanRequest(scan_id, clone_url, access_token, scan_type, has_scanners, cats) ==
    [scan_id |-> scan_id, clone_url |-> clone_url,
     access_token |-> access_token, scan_type |-> scan_type,
     file_patterns |-> <<>>, exclude_patterns |-> <<>>,
     has_scanners |-> has_scanners, scanners |-> cats]

\* the JSON body of a POST /scan, of the keys start_scan reads and the
\* key 'scanners' of the options, which carries the category list; a
\* pattern list that is absent is the empty list
Payload(scan_id, clone_url, access_token, scan_type, has_scanners, cats, file_patterns, exclude_patterns) ==
    [present |-> TRUE, scan_id |-> scan_id,
     repository |-> [clone_url |-> clone_url, access_token |-> access_token],
     options |-> [scan_type |-> scan_type,
                  has_scanners |-> has_scanners, scanners |-> cats,
                  file_patterns |-> file_patterns,
                  exclude_patterns |-> exclude_patterns]]

\* no POST /scan was made
NoData ==
    [present |-> FALSE, scan_id |-> 0,
     repository |-> [clone_url |-> NoUrl, access_token |-> None],
     options |-> [scan_type |-> "FULL", has_scanners |-> FALSE,
                  scanners |-> <<>>, file_patterns |-> <<>>,
                  exclude_patterns |-> <<>>]]

\* ScanResult(scan_id=..., status=..., started_at=...) with the defaults of
\* the dataclass; a time is TRUE when set and FALSE when None
ScanResult(scan_id, status, started_at) ==
    [scan_id |-> scan_id, status |-> status, vulnerabilities |-> <<>>,
     total_files |-> 0, files_scanned |-> 0, error_message |-> None,
     started_at |-> started_at, completed_at |-> FALSE]

\* the locals of scan() and of _clone_repository at a position pc;
\* clone_url is the URL given to Repo.clone_from, as the pieces of the
\* string, and empty until it is given
Frame(position) ==
    [pc |-> position, temp_dir |-> None, clone_url |-> <<>>, files |-> <<>>,
     professional_vulns |-> <<>>, regex_vulns |-> <<>>,
     scanner |-> 1, i |-> 0, e |-> None]

\* a directory that does not exist
NoDirectory == [exists |-> FALSE, tree |-> <<>>]

\* Config.MAX_FILE_SIZE_MB
MAX_FILE_SIZE_MB == 10

\* Config.MAX_FILES_PER_SCAN
MAX_FILES_PER_SCAN == 1000

\* class Config when the environment sets neither limit
ConfigDefaults ==
    [MAX_FILE_SIZE_MB |-> MAX_FILE_SIZE_MB,
     MAX_FILES_PER_SCAN |-> MAX_FILES_PER_SCAN]

\* nothing has been done yet: no method of the orchestrator was called, no
\* scanner was called, no directory scanner failed, no cleanup, no file
\* read, no failed removal, no cancel request
NoTrace ==
    [steps |-> <<>>, calls |-> <<>>, failed |-> {}, cleanups |-> 0,
     files_read |-> 0,
     rmtree_failed |-> FALSE, cancelled |-> FALSE,
     called_after_cancel |-> FALSE]

\* no scan is constructed
ScanIdle ==
    /\ orchestrator =
          [s \in ScanIds |->
              [request |-> ScanRequest(s, NoUrl, None, "FULL", FALSE, <<>>),
               temp_dir |-> None, scanners |-> <<>>,
               directory_scanners |-> <<>>]]
    /\ result = [s \in ScanIds |-> ScanResult(s, "absent", FALSE)]
    /\ frame = [s \in ScanIds |-> Frame("absent")]
    /\ disk = [n \in DirNames |-> NoDirectory]
    /\ Config = ConfigDefaults
    /\ data = [s \in ScanIds |-> NoData]
    /\ trace = [s \in ScanIds |-> NoTrace]

---------------------------------------------------------------------------
(* The run of the dedup engine: scan() collects, then deduplicates *)

DedupIdle ==
    /\ professional_vulns = <<>>
    /\ regex_vulns = <<>>
    /\ all_vulns = <<>>
    /\ prev_vulns = <<>>

SelectIdle ==
    /\ request = [scan_type |-> "FULL", has_scanners |-> FALSE, scanners |-> <<>>]
    /\ scanners = <<>>
    /\ directory_scanners = <<>>
    /\ invoked = <<>>

InitDedup ==
    /\ pc = "directory_scanners"
    /\ DedupIdle
    /\ SelectIdle
    /\ ScanIdle

\* scan(): professional_vulns.extend(vulns), one finding at a time
DirectoryScannerFinding ==
    /\ pc = "directory_scanners"
    /\ Len(professional_vulns) < MaxFindings
    /\ \E v \in ToolFindings :
          professional_vulns' = Append(professional_vulns, v)
    /\ UNCHANGED <<pc, regex_vulns, all_vulns, prev_vulns, selectVars, scanVars, Config, data>>

\* scan(): the directory scanner loop ends, the file loop begins
StartFileScanners ==
    /\ pc = "directory_scanners"
    /\ pc' = "file_scanners"
    /\ UNCHANGED <<dedupVars, selectVars, scanVars, Config, data>>

\* scan(): regex_vulns.extend(file_vulns), one finding at a time
FileScannerFinding ==
    /\ pc = "file_scanners"
    /\ Len(professional_vulns) + Len(regex_vulns) < MaxFindings
    /\ \E v \in PatternFindings :
          regex_vulns' = Append(regex_vulns, v)
    /\ UNCHANGED <<pc, professional_vulns, all_vulns, prev_vulns, selectVars, scanVars, Config, data>>

\* scan(): vulnerabilities = self._deduplicate_vulnerabilities(...)
DeduplicateVulnerabilities ==
    /\ pc = "file_scanners"
    /\ all_vulns' = Deduplicate(professional_vulns, regex_vulns)
    /\ pc' = "deduplicated"
    /\ UNCHANGED <<professional_vulns, regex_vulns, prev_vulns, selectVars, scanVars, Config, data>>

\* a second pass over the returned list, given as the regex findings
DeduplicateAgainAsRegex ==
    /\ pc = "deduplicated"
    /\ professional_vulns' = <<>>
    /\ regex_vulns' = all_vulns
    /\ prev_vulns' = all_vulns
    /\ all_vulns' = Deduplicate(<<>>, all_vulns)
    /\ pc' = "again"
    /\ UNCHANGED <<selectVars, scanVars, Config, data>>

\* a second pass over the returned list, given as the tool findings
DeduplicateAgainAsTools ==
    /\ pc = "deduplicated"
    /\ professional_vulns' = all_vulns
    /\ regex_vulns' = <<>>
    /\ prev_vulns' = all_vulns
    /\ all_vulns' = Deduplicate(all_vulns, <<>>)
    /\ pc' = "again"
    /\ UNCHANGED <<selectVars, scanVars, Config, data>>

NextDedup ==
    \/ DirectoryScannerFinding
    \/ StartFileScanners
    \/ FileScannerFinding
    \/ DeduplicateVulnerabilities
    \/ DeduplicateAgainAsRegex
    \/ DeduplicateAgainAsTools

SpecDedup == InitDedup /\ [][NextDedup]_vars

---------------------------------------------------------------------------
(* SecurityScanner._init_scanners *)

\* scanner_map: category -> the class of the instance stored under it
scanner_map ==
    [c \in {"XSS", "SQL_INJECTION", "COMMAND_INJECTION", "SECRETS_EXPOSURE",
            "CSRF", "SESSION", "IDOR", "CONFIGURATION", "AUTHENTICATION",
            "AUTHORIZATION", "CRYPTOGRAPHY", "OPEN_REDIRECT", "PATH_TRAVERSAL",
            "SSRF"} |->
        CASE c = "XSS" -> "XSSScanner"
          [] c \in {"SQL_INJECTION", "COMMAND_INJECTION", "PATH_TRAVERSAL", "SSRF"}
               -> "InjectionScanner"
          [] c = "SECRETS_EXPOSURE" -> "SecretsScanner"
          [] c = "CSRF" -> "CSRFScanner"
          [] c = "SESSION" -> "SessionScanner"
          [] c = "IDOR" -> "IDORScanner"
          [] OTHER -> "MisconfigScanner"]

\* directory_scanner_map: category -> the classes of the instances under it
directory_scanner_map ==
    [c \in {"CODE_QUALITY", "DEPENDENCY"} |->
        IF c = "CODE_QUALITY" THEN <<"SemgrepScanner", "BanditScanner">>
        ELSE <<"DependencyScanner">>]

\* the FULL / QUICK roster of file scanners
AllFileScanners ==
    <<"XSSScanner", "InjectionScanner", "SecretsScanner", "CSRFScanner",
      "SessionScanner", "IDORScanner", "MisconfigScanner">>

\* the FULL / QUICK roster of directory scanners
AllDirectoryScanners == <<"SemgrepScanner", "BanditScanner", "DependencyScanner">>

\* Selected without the scan_type test
SelectedAnyType(req) ==
    IF req.has_scanners /\ req.scanners # <<>> THEN req.scanners ELSE <<>>

\* selected = self.request.scanners if scan_type == 'CUSTOM' and
\* self.request.scanners else None; a None or empty list is falsy
Selected(req) ==
    IF req.scan_type = "CUSTOM" /\ req.has_scanners /\ req.scanners # <<>>
    THEN req.scanners ELSE <<>>

\* AppendUnused without the used_scanners test
AppendAlways(acc, scanner_type) ==
    [list |-> Append(acc.list, scanner_type),
     used |-> acc.used \cup {scanner_type}]

\* if scanner_type not in used_scanners: append and add
AppendUnused(acc, scanner_type) ==
    IF scanner_type \in acc.used THEN acc
    ELSE [list |-> Append(acc.list, scanner_type),
          used |-> acc.used \cup {scanner_type}]

\* the first loop: for category in selected, over scanner_map
RECURSIVE SelectFileScanners(_, _)
SelectFileScanners(selected, acc) ==
    IF selected = <<>> THEN acc
    ELSE SelectFileScanners(
            Tail(selected),
            IF Head(selected) \in DOMAIN scanner_map
            THEN AppendUnused(acc, scanner_map[Head(selected)])
            ELSE acc)

\* the inner loop: for scanner in directory_scanner_map[category]
RECURSIVE AppendAllUnused(_, _)
AppendAllUnused(acc, types) ==
    IF types = <<>> THEN acc
    ELSE AppendAllUnused(AppendUnused(acc, Head(types)), Tail(types))

\* the second loop: for category in selected, over directory_scanner_map
RECURSIVE SelectDirectoryScanners(_, _)
SelectDirectoryScanners(selected, acc) ==
    IF selected = <<>> THEN acc
    ELSE SelectDirectoryScanners(
            Tail(selected),
            IF Head(selected) \in DOMAIN directory_scanner_map
            THEN AppendAllUnused(acc, directory_scanner_map[Head(selected)])
            ELSE acc)

\* InitFileScanners falling back to the full roster when the selection
\* maps to no file scanner
InitFileScannersFallback(req) ==
    IF Selected(req) # <<>>
         /\ SelectFileScanners(Selected(req), [list |-> <<>>, used |-> {}]).list # <<>>
    THEN SelectFileScanners(Selected(req), [list |-> <<>>, used |-> {}]).list
    ELSE AllFileScanners

\* self.scanners after _init_scanners
InitFileScanners(req) ==
    IF Selected(req) # <<>>
    THEN SelectFileScanners(Selected(req), [list |-> <<>>, used |-> {}]).list
    ELSE AllFileScanners

\* self.directory_scanners after _init_scanners; used_scanners carries over
InitDirectoryScanners(req) ==
    IF Selected(req) # <<>>
    THEN SelectDirectoryScanners(
            Selected(req),
            [list |-> <<>>,
             used |-> SelectFileScanners(Selected(req),
                                         [list |-> <<>>, used |-> {}]).used]).list
    ELSE AllDirectoryScanners

---------------------------------------------------------------------------
(* The run of the scanner selection: a request is built, the orchestrator *)
(* is constructed from it, and it scans one file                          *)

ScanTypes == {"FULL", "QUICK", "CUSTOM"}

\* the category names a request's scanner list is drawn from; XXE is a
\* VulnerabilityCategory no scanner is mapped to
RequestCategories ==
    {"SECRETS_EXPOSURE", "SQL_INJECTION", "COMMAND_INJECTION", "CONFIGURATION",
     "CODE_QUALITY", "DEPENDENCY", "XXE"}

InitSelect ==
    /\ pc = "request"
    /\ DedupIdle
    /\ \E t \in ScanTypes, h \in BOOLEAN :
          request = [scan_type |-> t, has_scanners |-> h, scanners |-> <<>>]
    /\ scanners = <<>>
    /\ directory_scanners = <<>>
    /\ invoked = <<>>
    /\ ScanIdle

\* the caller adds a category to ScanRequest.scanners
RequestCategory ==
    /\ pc = "request"
    /\ request.has_scanners
    /\ Len(request.scanners) < MaxCategories
    /\ \E c \in RequestCategories :
          request' = [request EXCEPT !.scanners = Append(@, c)]
    /\ UNCHANGED <<pc, dedupVars, scanners, directory_scanners, invoked, scanVars, Config, data>>

\* SecurityScanner.__init__: self._init_scanners()
InitScanners ==
    /\ pc = "request"
    /\ scanners' = InitFileScanners(request)
    /\ directory_scanners' = InitDirectoryScanners(request)
    /\ pc' = "constructed"
    /\ UNCHANGED <<dedupVars, request, invoked, scanVars, Config, data>>

\* _scan_file: for scanner in self.scanners: scanner.scan(content, rel_path)
ScanFile ==
    /\ pc = "constructed"
    /\ invoked' = scanners
    /\ pc' = "file_scanned"
    /\ UNCHANGED <<dedupVars, request, scanners, directory_scanners, scanVars, Config, data>>

NextSelect ==
    \/ RequestCategory
    \/ InitScanners
    \/ ScanFile

SpecSelect == InitSelect /\ [][NextSelect]_vars

---------------------------------------------------------------------------
(* The working copy: files, and SecurityScanner._get_files_to_scan.  A     *)
(* path is relative to the working copy and is the sequence of its code    *)
(* points ("/" is 47, "." is 46).                                          *)

\* SecurityScanner.SCANNABLE_EXTENSIONS
SCANNABLE_EXTENSIONS ==
    {
      <<46, 106, 115>>,                                      \* .js
      <<46, 106, 115, 120>>,                                 \* .jsx
      <<46, 116, 115>>,                                      \* .ts
      <<46, 116, 115, 120>>,                                 \* .tsx
      <<46, 112, 121>>,                                      \* .py
      <<46, 106, 97, 118, 97>>,                              \* .java
      <<46, 103, 111>>,                                      \* .go
      <<46, 114, 98>>,                                       \* .rb
      <<46, 112, 104, 112>>,                                 \* .php
      <<46, 99, 115>>,                                       \* .cs
      <<46, 99>>,                                            \* .c
      <<46, 99, 112, 112>>,                                  \* .cpp
      <<46, 104>>,                                           \* .h
      <<46, 104, 112, 112>>,                                 \* .hpp
      <<46, 115, 119, 105, 102, 116>>,                       \* .swift
      <<46, 107, 116>>,                                      \* .kt
      <<46, 107, 116, 115>>,                                 \* .kts
      <<46, 114, 115>>,                                      \* .rs
      <<46, 115, 113, 108>>,                                 \* .sql
      <<46, 104, 116, 109, 108>>,                            \* .html
      <<46, 104, 116, 109>>,                                 \* .htm
      <<46, 120, 109, 108>>,                                 \* .xml
      <<46, 106, 115, 111, 110>>,                            \* .json
      <<46, 121, 97, 109, 108>>,                             \* .yaml
      <<46, 121, 109, 108>>                                  \* .yml
    }

\* SecurityScanner.EXCLUDED_DIRS
EXCLUDED_DIRS ==
    {
      <<110, 111, 100, 101, 95, 109, 111, 100, 117, 108, 101, 115>>, \* node_modules
      <<118, 101, 110, 118>>,                                \* venv
      <<46, 118, 101, 110, 118>>,                            \* .venv
      <<101, 110, 118>>,                                     \* env
      <<46, 101, 110, 118>>,                                 \* .env
      <<95, 95, 112, 121, 99, 97, 99, 104, 101, 95, 95>>,    \* __pycache__
      <<46, 103, 105, 116>>,                                 \* .git
      <<46, 115, 118, 110>>,                                 \* .svn
      <<46, 104, 103>>,                                      \* .hg
      <<118, 101, 110, 100, 111, 114>>,                      \* vendor
      <<98, 111, 119, 101, 114, 95, 99, 111, 109, 112, 111, 110, 101, 110, 116, 115>>, \* bower_components
      <<100, 105, 115, 116>>,                                \* dist
      <<98, 117, 105, 108, 100>>,                            \* build
      <<46, 105, 100, 101, 97>>,                             \* .idea
      <<46, 118, 115, 99, 111, 100, 101>>,                   \* .vscode
      <<99, 111, 118, 101, 114, 97, 103, 101>>,              \* coverage
      <<46, 110, 121, 99, 95, 111, 117, 116, 112, 117, 116>> \* .nyc_output
    }

\* a file of a repository: its path, its size in bytes, whether open() and
\* read() succeed on it, and what its text holds, as a set ("api_key": a
\* line the SecretsScanner API-key pattern and semgrep p/secrets match;
\* "csrf_form": a line a CSRFScanner pattern matches; "vulnerable_pin": a
\* requirement Safety knows a vulnerability of) at which line
File(path, size, readable, content, line) ==
    [path |-> path, size |-> size, readable |-> readable,
     content |-> content, line |-> line]

\* the repositories behind the clone URLs, each as the files rglob('*')
\* yields, in its order
Repositories ==
    [rest \in {"github.com/acme/app.git", "github.com/acme/deps.git",
                "github.com/acme/docs.git", "github.com/acme/mixed.git"} |->
        CASE rest = "github.com/acme/app.git" ->
               << File(<<97, 46, 112, 121>>, 400, TRUE, {"api_key"}, 10),
                  File(<<114, 101, 113, 117, 105, 114, 101, 109, 101, 110, 116, 115, 46, 116, 120, 116>>, 40, TRUE,
                       {"vulnerable_pin"}, 1) >>
          [] rest = "github.com/acme/deps.git" ->
               << File(<<114, 101, 113, 117, 105, 114, 101, 109, 101, 110, 116, 115, 46, 116, 120, 116>>, 40, TRUE,
                       {"vulnerable_pin"}, 1) >>
          [] rest = "github.com/acme/docs.git" ->
               << File(<<82, 69, 65, 68, 77, 69, 46, 109, 100>>, 900, TRUE, {}, 0) >>
          [] rest = "github.com/acme/mixed.git" ->
               << File(<<97, 46, 112, 121>>, 400, FALSE, {"api_key"}, 10),
                  File(<<65, 66, 46, 80, 89>>, 300, TRUE,
                       {"csrf_form", "api_key"}, 10),
                  File(<<100, 105, 115, 116, 47, 97, 46, 106, 115>>, 500, TRUE,
                       {"api_key"}, 55),
                  File(<<98, 105, 103, 46, 106, 115, 111, 110>>, 20000000, TRUE, {}, 0) >>]

\* str.find('/'), from 1, 0 when absent
FirstSlash(p) ==
    IF \E k \in 1..Len(p) : p[k] = 47
    THEN CHOOSE k \in 1..Len(p) : p[k] = 47 /\ \A j \in 1..(k-1) : p[j] # 47
    ELSE 0

\* PurePath.parts of a relative path
RECURSIVE Parts(_)
Parts(p) ==
    IF FirstSlash(p) = 0 THEN <<p>>
    ELSE <<SubSeq(p, 1, FirstSlash(p) - 1)>>
            \o Parts(SubSeq(p, FirstSlash(p) + 1, Len(p)))

\* PurePath.name
Name(p) == Parts(p)[Len(Parts(p))]

\* str.rfind('.') on the name, from 1, 0 when absent
LastDot(n) ==
    IF \E k \in 1..Len(n) : n[k] = 46
    THEN CHOOSE k \in 1..Len(n) :
            n[k] = 46 /\ \A j \in (k+1)..Len(n) : n[j] # 46
    ELSE 0

\* PurePath.suffix: the name from its last dot, unless the dot is the first
\* or the last character
Suffix(p) ==
    LET n == Name(p) IN
    IF 1 < LastDot(n) /\ LastDot(n) < Len(n)
    THEN SubSeq(n, LastDot(n), Len(n)) ELSE <<>>

\* str.lower() on ASCII
Lower(s) == [k \in 1..Len(s) |-> IF s[k] \in 65..90 THEN s[k] + 32 ELSE s[k]]

\* Scannable without the extension filter
ScannableAnySuffix(f) ==
    /\ \A k \in 1..Len(Parts(f.path)) : Parts(f.path)[k] \notin EXCLUDED_DIRS
    /\ ~(f.size > Config.MAX_FILE_SIZE_MB * 1024 * 1024)

\* the three filters of the loop body, in its order
Scannable(f) ==
    /\ \A k \in 1..Len(Parts(f.path)) : Parts(f.path)[k] \notin EXCLUDED_DIRS
    /\ Lower(Suffix(f.path)) \in SCANNABLE_EXTENSIONS
    /\ ~(f.size > Config.MAX_FILE_SIZE_MB * 1024 * 1024)

\* CollectFiles without the break at the file limit
RECURSIVE CollectFilesNoLimit(_, _)
CollectFilesNoLimit(tree, files) ==
    IF tree = <<>> THEN files
    ELSE IF ~Scannable(Head(tree)) THEN CollectFilesNoLimit(Tail(tree), files)
    ELSE CollectFilesNoLimit(Tail(tree), Append(files, Head(tree).path))

\* the loop of _get_files_to_scan over the rest of the tree, with the break
\* at the file limit
RECURSIVE CollectFiles(_, _)
CollectFiles(tree, files) ==
    IF tree = <<>> THEN files
    ELSE IF ~Scannable(Head(tree)) THEN CollectFiles(Tail(tree), files)
    ELSE IF Len(files) + 1 >= Config.MAX_FILES_PER_SCAN
         THEN Append(files, Head(tree).path)
         ELSE CollectFiles(Tail(tree), Append(files, Head(tree).path))

\* _get_files_to_scan on the working copy directory d: [] when there is
\* none, else the loop over rglob('*')
GetFilesToScan(d) == IF ~d.exists THEN <<>> ELSE CollectFiles(d.tree, <<>>)

---------------------------------------------------------------------------
(* The scanners, as the orchestrator sees them *)

\* DependencyScanner.scan_directory: the directories os.walk does not enter
DependencyExcludedDirs ==
    {
      <<110, 111, 100, 101, 95, 109, 111, 100, 117, 108, 101, 115>>, \* node_modules
      <<118, 101, 110, 118>>,                                \* venv
      <<46, 118, 101, 110, 118>>,                            \* .venv
      <<101, 110, 118>>,                                     \* env
      <<95, 95, 112, 121, 99, 97, 99, 104, 101, 95, 95>>,    \* __pycache__
      <<46, 103, 105, 116>>,                                 \* .git
      <<100, 105, 115, 116>>,                                \* dist
      <<98, 117, 105, 108, 100>>                             \* build
    }

\* DependencyScanner.scan_directory: the file names it hands to Safety
RequirementsFiles ==
    {
      <<114, 101, 113, 117, 105, 114, 101, 109, 101, 110, 116, 115, 46, 116, 120, 116>>, \* requirements.txt
      <<114, 101, 113, 117, 105, 114, 101, 109, 101, 110, 116, 115, 45, 100, 101, 118, 46, 116, 120, 116>> \* requirements-dev.txt
    }

\* DependencyScanner._parse_safety_results: one Safety entry (no cvss
\* score) to one Vulnerability
ParseSafetyResult(path) ==
    [title |-> "Vulnerable dependency",
     severity |-> "HIGH",
     category |-> "DEPENDENCY",
     file_path |-> path,
     start_line |-> 1,
     fix_confidence |-> 95]

\* the findings a directory tool has for file f when it runs to the end
ToolFindingsOn(scanner_type, f) ==
    CASE scanner_type = "SemgrepScanner" /\ f.readable /\ "api_key" \in f.content ->
           << ParseSemgrepResult(<<"WARNING", "secrets">>, f.path, f.line) >>
      [] /\ scanner_type = "DependencyScanner"
         /\ Name(f.path) \in RequirementsFiles
         /\ \A k \in 1..(Len(Parts(f.path)) - 1) :
               Parts(f.path)[k] \notin DependencyExcludedDirs
         /\ "vulnerable_pin" \in f.content ->
           << ParseSafetyResult(f.path) >>
      [] OTHER -> <<>>

\* scanner.scan_directory(self.temp_dir) when the tool runs to the end
RECURSIVE ScanDirectory(_, _)
ScanDirectory(scanner_type, tree) ==
    IF tree = <<>> THEN <<>>
    ELSE ToolFindingsOn(scanner_type, Head(tree))
            \o ScanDirectory(scanner_type, Tail(tree))

\* the ways a call of scan_directory ends: the tool reports; the scanner
\* returns [] because the tool is missing, timed out or printed what does
\* not parse; an exception leaves the call
DirectoryOutcomes == {"reports", "nothing", "raises"}

\* the row of secrets_scanner.py PATTERNS the model's secret matches
ApiKeyRule ==
    CHOOSE r \in PatternRules : r.title = "API Key Detected"

\* scanner.scan(content, rel_path) raises: CSRFScanner builds its finding
\* with VulnerabilityCategory.SECURITY_MISCONFIGURATION, which models.py
\* does not define
ScanRaises(scanner_type, f) ==
    scanner_type = "CSRFScanner" /\ "csrf_form" \in f.content

\* scanner.scan(content, rel_path) when it returns
Scan(scanner_type, f) ==
    IF scanner_type = "SecretsScanner" /\ "api_key" \in f.content
    THEN << PatternVulnerability(ApiKeyRule, f.path, f.line) >>
    ELSE <<>>

\* RunScanners with one try around the whole loop: when a scanner raises
\* the file yields nothing
RECURSIVE RunScannersAllOrNothing(_, _)
RunScannersAllOrNothing(scanner_types, f) ==
    IF scanner_types = <<>> THEN <<>>
    ELSE IF \E k \in 1..Len(scanner_types) : ScanRaises(scanner_types[k], f)
    THEN <<>>
    ELSE Scan(Head(scanner_types), f)
            \o RunScannersAllOrNothing(Tail(scanner_types), f)

\* _scan_file, the loop over self.scanners on a file that was read: the
\* findings of the scanners that return, a raising scanner adds nothing
RECURSIVE RunScanners(_, _)
RunScanners(scanner_types, f) ==
    IF scanner_types = <<>> THEN <<>>
    ELSE (IF ScanRaises(Head(scanner_types), f) THEN <<>>
          ELSE Scan(Head(scanner_types), f))
            \o RunScanners(Tail(scanner_types), f)

---------------------------------------------------------------------------
(* SecurityScanner.scan(), one step of one scan at a time.  Scan s is the  *)
(* instance orchestrator[s] running scan(); frame[s].pc is its position.   *)

\* the most categories the scanner list of a scanned request holds
MaxScanCategories == 2

\* what a scan leaves alone: the state of the other runs of the model
notScan == <<pc, dedupVars, selectVars, Config, data>>

\* SecurityScanner(request): __init__ and _init_scanners
SecurityScanner(req) ==
    [request |-> req, temp_dir |-> None,
     scanners |-> InitFileScanners(req),
     directory_scanners |-> InitDirectoryScanners(req)]

\* str(e) of the exceptions the model raises
NoSpaceLeft == "[Errno 28] No space left on device"
PermissionDenied == "[Errno 13] Permission denied"
NoneHasNoStartswith == "'NoneType' object has no attribute 'startswith'"
NoneIsNoUrl == "expected str, bytes or os.PathLike object, not NoneType"
NoneNotOrdered == "'<' not supported between instances of 'NoneType' and 'int'"

\* the file of working copy d at path p, as a sequence of none or one
FileAt(d, p) ==
    IF d.exists THEN SelectSeq(d.tree, LAMBDA f : f.path = p) ELSE <<>>

\* the directory self.temp_dir names; none when self.temp_dir is None
WorkingCopy(s) ==
    IF orchestrator[s].temp_dir = None THEN NoDirectory
    ELSE disk[orchestrator[s].temp_dir]

\* a scanner call as the trace keeps it: the class and what it was given
Call(scanner_type, target) == <<scanner_type, target>>

\* the calls _scan_file makes on a file it has read
CallsOn(scanner_types, p) ==
    [k \in 1..Len(scanner_types) |-> Call(scanner_types[k], p)]

\* whether a scanner was called after the cancel request, once n more
\* calls are made
AfterCancel(t, n) == t.called_after_cancel \/ (t.cancelled /\ n > 0)

\* scan(): result = ScanResult(scan_id, status='RUNNING', started_at=now)
StartScan(s) ==
    /\ frame[s].pc = "constructed"
    /\ result' = [result EXCEPT ![s] =
          ScanResult(orchestrator[s].request.scan_id, "RUNNING", TRUE)]
    /\ frame' = [frame EXCEPT ![s].pc = "mkdtemp"]
    /\ UNCHANGED <<orchestrator, disk, trace, notScan>>

\* Mkdtemp with one fixed directory for every scan, made if missing
MkdtempFixedName(s) ==
    /\ frame[s].pc = "mkdtemp"
    /\ disk' = [disk EXCEPT !["gitscan_a"].exists = TRUE]
    /\ frame' = [frame EXCEPT ![s].temp_dir = "gitscan_a", ![s].pc = "clone_from"]
    /\ trace' = [trace EXCEPT ![s].steps = Append(@, "_clone_repository")]
    /\ UNCHANGED <<orchestrator, result, notScan>>

\* _clone_repository: temp_dir = tempfile.mkdtemp(prefix='gitscan_'), which
\* creates a directory under a name that did not exist
Mkdtemp(s) ==
    /\ frame[s].pc = "mkdtemp"
    /\ \E n \in DirNames :
          /\ ~disk[n].exists
          /\ disk' = [disk EXCEPT ![n] = [exists |-> TRUE, tree |-> <<>>]]
          /\ frame' = [frame EXCEPT ![s].temp_dir = n, ![s].pc = "clone_from"]
    /\ trace' = [trace EXCEPT ![s].steps = Append(@, "_clone_repository")]
    /\ UNCHANGED <<orchestrator, result, notScan>>

\* _clone_repository: mkdtemp raises OSError, which is no GitError and
\* leaves _clone_repository for the handler of scan()
MkdtempRaises(s) ==
    /\ frame[s].pc = "mkdtemp"
    /\ frame' = [frame EXCEPT ![s].e = NoSpaceLeft, ![s].pc = "except"]
    /\ trace' = [trace EXCEPT ![s].steps = Append(@, "_clone_repository")]
    /\ UNCHANGED <<orchestrator, result, disk, notScan>>

\* _clone_repository: clone_url = self.request.clone_url, and with a token
\* and a URL that starts with 'https://' the replacement of 'https://' by
\* 'https://x-access-token:<token>@'; the string as its pieces
PrepareCloneUrl(req) ==
    IF req.access_token # None /\ req.clone_url.scheme = "https://"
    THEN <<"https://", "x-access-token:", req.access_token, "@",
           req.clone_url.rest>>
    ELSE <<req.clone_url.scheme, req.clone_url.rest>>

\* _clone_repository: Repo.clone_from succeeds, return temp_dir; scan():
\* self.temp_dir = the returned name
CloneFrom(s) ==
    /\ frame[s].pc = "clone_from"
    /\ orchestrator[s].request.clone_url # NoUrl
    /\ disk' = [disk EXCEPT ![frame[s].temp_dir].tree =
          Repositories[orchestrator[s].request.clone_url.rest]]
    /\ orchestrator' = [orchestrator EXCEPT ![s].temp_dir = frame[s].temp_dir]
    /\ frame' = [frame EXCEPT
          ![s].clone_url = PrepareCloneUrl(orchestrator[s].request),
          ![s].pc = "get_files"]
    /\ UNCHANGED <<result, trace, notScan>>

\* CloneGitError without the test of the returned None: scan() goes on
CloneGitErrorContinues(s) ==
    /\ frame[s].pc = "clone_from"
    /\ orchestrator[s].request.clone_url # NoUrl
    /\ disk' = [disk EXCEPT ![frame[s].temp_dir] = NoDirectory]
    /\ frame' = [frame EXCEPT
          ![s].clone_url = PrepareCloneUrl(orchestrator[s].request),
          ![s].pc = "get_files"]
    /\ UNCHANGED <<orchestrator, result, trace, notScan>>

\* _clone_repository: Repo.clone_from raises GitError; the handler removes
\* the directory and returns None; scan(): self.temp_dir = None, the result
\* is FAILED with the fixed message, return result (through finally)
CloneGitError(s) ==
    /\ frame[s].pc = "clone_from"
    /\ orchestrator[s].request.clone_url # NoUrl
    /\ disk' = [disk EXCEPT ![frame[s].temp_dir] = NoDirectory]
    /\ result' = [result EXCEPT ![s].status = "FAILED",
                                ![s].error_message = "Failed to clone repository"]
    /\ frame' = [frame EXCEPT
          ![s].clone_url = PrepareCloneUrl(orchestrator[s].request),
          ![s].pc = "finally"]
    /\ UNCHANGED <<orchestrator, trace, notScan>>

\* _clone_repository: Repo.clone_from raises GitError and the handler's
\* shutil.rmtree raises: the exception leaves for the handler of scan()
CloneGitErrorRmtreeRaises(s) ==
    /\ frame[s].pc = "clone_from"
    /\ orchestrator[s].request.clone_url # NoUrl
    /\ frame' = [frame EXCEPT
          ![s].clone_url = PrepareCloneUrl(orchestrator[s].request),
          ![s].e = PermissionDenied, ![s].pc = "except"]
    /\ trace' = [trace EXCEPT ![s].rmtree_failed = TRUE]
    /\ UNCHANGED <<orchestrator, result, disk, notScan>>

\* _clone_repository: with clone_url None, clone_url.startswith (a token is
\* given) or Repo.clone_from (no token) raises an exception that is no
\* GitError; it leaves for the handler of scan(), self.temp_dir unassigned
CloneRaises(s) ==
    /\ frame[s].pc = "clone_from"
    /\ orchestrator[s].request.clone_url = NoUrl
    /\ frame' = [frame EXCEPT
          ![s].e = IF orchestrator[s].request.access_token # None
                   THEN NoneHasNoStartswith ELSE NoneIsNoUrl,
          ![s].pc = "except"]
    /\ UNCHANGED <<orchestrator, result, disk, trace, notScan>>

\* GetFiles of an enumeration that keeps, when the request carries
\* file_patterns, only the files whose extension one of them ('*' and an
\* extension) names
GetFilesMatchingPatterns(s) ==
    /\ frame[s].pc = "get_files"
    /\ LET patterns == orchestrator[s].request.file_patterns
           all == GetFilesToScan(WorkingCopy(s))
           files == IF patterns = <<>> THEN all
                    ELSE SelectSeq(all, LAMBDA p :
                            \E k \in 1..Len(patterns) :
                                /\ Head(patterns[k]) = 42
                                /\ Suffix(p) = Tail(patterns[k]))
       IN /\ frame' = [frame EXCEPT ![s].files = files, ![s].scanner = 1,
                                    ![s].pc = "directory_scanners"]
          /\ result' = [result EXCEPT ![s].total_files = Len(files)]
    /\ trace' = [trace EXCEPT ![s].steps = Append(@, "_get_files_to_scan")]
    /\ UNCHANGED <<orchestrator, disk, notScan>>

\* GetFiles of a scan() without the loop over self.directory_scanners
GetFilesSkipsDirectoryScanners(s) ==
    /\ frame[s].pc = "get_files"
    /\ LET files == GetFilesToScan(WorkingCopy(s)) IN
          /\ frame' = [frame EXCEPT ![s].files = files, ![s].i = 0,
                                    ![s].pc = "file_scanners"]
          /\ result' = [result EXCEPT ![s].total_files = Len(files)]
    /\ trace' = [trace EXCEPT ![s].steps = Append(@, "_get_files_to_scan")]
    /\ UNCHANGED <<orchestrator, disk, notScan>>

\* scan(): files = self._get_files_to_scan(); result.total_files = len(files)
GetFiles(s) ==
    /\ frame[s].pc = "get_files"
    /\ LET files == GetFilesToScan(WorkingCopy(s)) IN
          /\ frame' = [frame EXCEPT ![s].files = files, ![s].scanner = 1,
                                    ![s].pc = "directory_scanners"]
          /\ result' = [result EXCEPT ![s].total_files = Len(files)]
    /\ trace' = [trace EXCEPT ![s].steps = Append(@, "_get_files_to_scan")]
    /\ UNCHANGED <<orchestrator, disk, notScan>>

\* _get_files_to_scan: rglob or path.stat() raises OSError
GetFilesRaises(s) ==
    /\ frame[s].pc = "get_files"
    /\ frame' = [frame EXCEPT ![s].e = PermissionDenied, ![s].pc = "except"]
    /\ trace' = [trace EXCEPT ![s].steps = Append(@, "_get_files_to_scan")]
    /\ UNCHANGED <<orchestrator, result, disk, notScan>>

\* DirectoryScanner without the try around scan_directory: an exception
\* out of it ends the loop at the handler of scan()
DirectoryScannerFatal(s) ==
    /\ frame[s].pc = "directory_scanners"
    /\ frame[s].scanner <= Len(orchestrator[s].directory_scanners)
    /\ LET scanner_type == orchestrator[s].directory_scanners[frame[s].scanner]
           d == WorkingCopy(s)
       IN  \E outcome \in DirectoryOutcomes :
              /\ frame' = [frame EXCEPT
                    ![s].professional_vulns =
                        IF outcome = "reports" /\ d.exists
                        THEN @ \o ScanDirectory(scanner_type, d.tree) ELSE @,
                    ![s].scanner = @ + 1,
                    ![s].e = IF outcome = "raises" THEN PermissionDenied ELSE @,
                    ![s].pc = IF outcome = "raises" THEN "except" ELSE @]
              /\ trace' = [trace EXCEPT
                    ![s].steps = Append(@, "scan_directory"),
                    ![s].calls = Append(@, Call(scanner_type, "directory")),
                    ![s].failed = IF outcome = "reports" THEN @
                                  ELSE @ \cup {scanner_type},
                    ![s].called_after_cancel = AfterCancel(trace[s], 1)]
    /\ UNCHANGED <<orchestrator, result, disk, notScan>>

\* scan(): one turn of the loop over self.directory_scanners; an exception
\* out of scan_directory is logged and the loop goes on
DirectoryScanner(s) ==
    /\ frame[s].pc = "directory_scanners"
    /\ frame[s].scanner <= Len(orchestrator[s].directory_scanners)
    /\ LET scanner_type == orchestrator[s].directory_scanners[frame[s].scanner]
           d == WorkingCopy(s)
       IN  \E outcome \in DirectoryOutcomes :
              /\ frame' = [frame EXCEPT
                    ![s].professional_vulns =
                        IF outcome = "reports" /\ d.exists
                        THEN @ \o ScanDirectory(scanner_type, d.tree) ELSE @,
                    ![s].scanner = @ + 1]
              /\ trace' = [trace EXCEPT
                    ![s].steps = Append(@, "scan_directory"),
                    ![s].calls = Append(@, Call(scanner_type, "directory")),
                    ![s].failed = IF outcome = "reports" THEN @
                                  ELSE @ \cup {scanner_type},
                    ![s].called_after_cancel = AfterCancel(trace[s], 1)]
    /\ UNCHANGED <<orchestrator, result, disk, notScan>>

\* scan(): the loop over self.directory_scanners ends
EndDirectoryScanners(s) ==
    /\ frame[s].pc = "directory_scanners"
    /\ frame[s].scanner > Len(orchestrator[s].directory_scanners)
    /\ frame' = [frame EXCEPT ![s].i = 0, ![s].pc = "file_scanners"]
    /\ UNCHANGED <<orchestrator, result, disk, trace, notScan>>

\* scan(): one turn of the loop over files: file_vulns = self._scan_file(
\* file_path); regex_vulns.extend(file_vulns); result.files_scanned = i + 1.
\* _scan_file returns [] when the file cannot be read, and never raises.
ScanNextFile(s) ==
    /\ frame[s].pc = "file_scanners"
    /\ frame[s].i < Len(frame[s].files)
    /\ LET file_path == frame[s].files[frame[s].i + 1]
           opened == FileAt(WorkingCopy(s), file_path)
           was_read == opened # <<>> /\ opened[1].readable
           file_vulns == IF was_read
                         THEN RunScanners(orchestrator[s].scanners, opened[1])
                         ELSE <<>>
       IN  /\ frame' = [frame EXCEPT ![s].regex_vulns = @ \o file_vulns,
                                     ![s].i = @ + 1]
           /\ result' = [result EXCEPT ![s].files_scanned = frame[s].i + 1]
           /\ trace' = [trace EXCEPT
                    ![s].steps = Append(@, "_scan_file"),
                    ![s].calls =
                     IF was_read
                     THEN @ \o CallsOn(orchestrator[s].scanners, file_path)
                     ELSE @,
                 ![s].files_read = IF was_read THEN @ + 1 ELSE @,
                 ![s].called_after_cancel =
                     IF was_read
                     THEN AfterCancel(trace[s], Len(orchestrator[s].scanners))
                     ELSE @]
    /\ UNCHANGED <<orchestrator, disk, notScan>>

\* Complete with an exception raised after the result was made COMPLETED:
\* the handler of scan() then runs on it
CompleteThenRaises(s) ==
    /\ frame[s].pc = "file_scanners"
    /\ frame[s].i = Len(frame[s].files)
    /\ result' = [result EXCEPT
          ![s].vulnerabilities =
              Deduplicate(frame[s].professional_vulns, frame[s].regex_vulns),
          ![s].status = "COMPLETED",
          ![s].completed_at = TRUE]
    /\ frame' = [frame EXCEPT ![s].e = PermissionDenied, ![s].pc = "except"]
    /\ trace' = [trace EXCEPT ![s].steps = Append(@, "_deduplicate_vulnerabilities")]
    /\ UNCHANGED <<orchestrator, disk, notScan>>

\* scan(): the loop over files ends; vulnerabilities = self.
\* _deduplicate_vulnerabilities(professional_vulns, regex_vulns); the result
\* takes them and is COMPLETED, completed_at = now
Complete(s) ==
    /\ frame[s].pc = "file_scanners"
    /\ frame[s].i = Len(frame[s].files)
    /\ result' = [result EXCEPT
          ![s].vulnerabilities =
              Deduplicate(frame[s].professional_vulns, frame[s].regex_vulns),
          ![s].status = "COMPLETED",
          ![s].completed_at = TRUE]
    /\ frame' = [frame EXCEPT ![s].pc = "finally"]
    /\ trace' = [trace EXCEPT ![s].steps = Append(@, "_deduplicate_vulnerabilities")]
    /\ UNCHANGED <<orchestrator, disk, notScan>>

\* scan(): _deduplicate_vulnerabilities raises (a tool finding whose
\* start_line is None does not sort)
DeduplicateRaises(s) ==
    /\ frame[s].pc = "file_scanners"
    /\ frame[s].i = Len(frame[s].files)
    /\ frame[s].professional_vulns # <<>>
    /\ frame' = [frame EXCEPT ![s].e = NoneNotOrdered, ![s].pc = "except"]
    /\ trace' = [trace EXCEPT ![s].steps = Append(@, "_deduplicate_vulnerabilities")]
    /\ UNCHANGED <<orchestrator, result, disk, notScan>>

\* Except without error_message = str(e)
ExceptNoMessage(s) ==
    /\ frame[s].pc = "except"
    /\ result' = [result EXCEPT ![s].status = "FAILED",
                                ![s].completed_at = TRUE]
    /\ frame' = [frame EXCEPT ![s].pc = "finally"]
    /\ UNCHANGED <<orchestrator, disk, trace, notScan>>

\* scan(): except Exception as e: FAILED, error_message = str(e),
\* completed_at = now
Except(s) ==
    /\ frame[s].pc = "except"
    /\ result' = [result EXCEPT ![s].status = "FAILED",
                                ![s].error_message = frame[s].e,
                                ![s].completed_at = TRUE]
    /\ frame' = [frame EXCEPT ![s].pc = "finally"]
    /\ UNCHANGED <<orchestrator, disk, trace, notScan>>

\* Cleanup called at the end of the try block instead of in finally: a scan
\* that failed returns without it
CleanupUnlessFailed(s) ==
    /\ frame[s].pc = "finally"
    /\ disk' = IF orchestrator[s].temp_dir # None /\ result[s].status # "FAILED"
               THEN [disk EXCEPT ![orchestrator[s].temp_dir] = NoDirectory]
               ELSE disk
    /\ trace' = [trace EXCEPT
                    ![s].steps = Append(@, "_cleanup"),
                    ![s].cleanups = IF result[s].status # "FAILED" THEN @ + 1 ELSE @]
    /\ frame' = [frame EXCEPT ![s].pc = "returned"]
    /\ UNCHANGED <<orchestrator, result, notScan>>

\* scan(): finally: self._cleanup(), then return result.  _cleanup removes
\* self.temp_dir when it is set and exists
Cleanup(s) ==
    /\ frame[s].pc = "finally"
    /\ disk' = IF orchestrator[s].temp_dir # None
               THEN [disk EXCEPT ![orchestrator[s].temp_dir] = NoDirectory]
               ELSE disk
    /\ trace' = [trace EXCEPT
                    ![s].steps = Append(@, "_cleanup"),
                    ![s].cleanups = @ + 1]
    /\ frame' = [frame EXCEPT ![s].pc = "returned"]
    /\ UNCHANGED <<orchestrator, result, notScan>>

\* scan(): finally: self._cleanup() whose shutil.rmtree raises; the
\* exception is logged and the directory stays
CleanupRmtreeRaises(s) ==
    /\ frame[s].pc = "finally"
    /\ orchestrator[s].temp_dir # None
    /\ disk[orchestrator[s].temp_dir].exists
    /\ trace' = [trace EXCEPT
                    ![s].steps = Append(@, "_cleanup"),
                    ![s].cleanups = @ + 1,
                              ![s].rmtree_failed = TRUE]
    /\ frame' = [frame EXCEPT ![s].pc = "returned"]
    /\ UNCHANGED <<orchestrator, result, disk, notScan>>

\* routes.cancel_scan(scan_id), called for a scan in flight: it logs and
\* answers 'cancelled'; it reaches no scan
CancelScan(s) ==
    /\ result[s].status = "RUNNING"
    /\ ~trace[s].cancelled
    /\ trace' = [trace EXCEPT ![s].cancelled = TRUE]
    /\ UNCHANGED <<orchestrator, result, frame, disk, notScan>>

\* one step of scan() by scan s
ScanStep(s) ==
    \/ StartScan(s)
    \/ Mkdtemp(s)
    \/ MkdtempRaises(s)
    \/ CloneFrom(s)
    \/ CloneGitError(s)
    \/ CloneGitErrorRmtreeRaises(s)
    \/ CloneRaises(s)
    \/ GetFiles(s)
    \/ GetFilesRaises(s)
    \/ DirectoryScanner(s)
    \/ EndDirectoryScanners(s)
    \/ ScanNextFile(s)
    \/ Complete(s)
    \/ DeduplicateRaises(s)
    \/ Except(s)
    \/ Cleanup(s)
    \/ CleanupRmtreeRaises(s)

---------------------------------------------------------------------------
(* The run of one scan: a request arrives, the orchestrator is built and   *)
(* scan() runs to its return; a cancel request may arrive meanwhile        *)

\* the clone URLs of the requests
CloneUrls ==
    { [scheme |-> "https://", rest |-> r] : r \in DOMAIN Repositories }
        \cup {[scheme |-> "http://", rest |-> "github.com/acme/docs.git"]}
        \cup {NoUrl}

\* the category names the scanner list of a scanned request is drawn from
ScanCategories == {"SECRETS_EXPOSURE", "CODE_QUALITY", "DEPENDENCY", "XXE"}

\* the scanner lists of length n at most
RECURSIVE CategoryLists(_)
CategoryLists(n) ==
    IF n = 0 THEN {<<>>}
    ELSE CategoryLists(n - 1)
            \cup { Append(l, c) : l \in CategoryLists(n - 1), c \in ScanCategories }

\* the requests a scan is started with: with a category list and no token,
\* or with no list and with or without a token
ScanRequests(s) ==
    { ScanRequest(s, u, None, t, TRUE, l) :
        u \in CloneUrls, t \in ScanTypes,
        l \in CategoryLists(MaxScanCategories) }
      \cup
    { ScanRequest(s, u, a, t, FALSE, <<>>) :
        u \in CloneUrls, a \in {None, "ghp_token"}, t \in ScanTypes }

InitScan ==
    /\ pc = "scan"
    /\ DedupIdle
    /\ SelectIdle
    /\ \E req \in ScanRequests(1) :
          /\ orchestrator =
                [s \in ScanIds |->
                    IF s = 1 THEN SecurityScanner(req)
                    ELSE [request |-> ScanRequest(s, NoUrl, None, "FULL", FALSE, <<>>),
                          temp_dir |-> None, scanners |-> <<>>,
                          directory_scanners |-> <<>>]]
    /\ result = [s \in ScanIds |-> ScanResult(s, "absent", FALSE)]
    /\ frame = [s \in ScanIds |->
                   IF s = 1 THEN Frame("constructed") ELSE Frame("absent")]
    /\ disk = [n \in DirNames |-> NoDirectory]
    /\ Config = ConfigDefaults
    /\ data = [s \in ScanIds |-> NoData]
    /\ trace = [s \in ScanIds |-> NoTrace]

NextScan ==
    \/ StartScan(1)
    \/ Mkdtemp(1)
    \/ MkdtempRaises(1)
    \/ CloneFrom(1)
    \/ CloneGitError(1)
    \/ CloneGitErrorRmtreeRaises(1)
    \/ CloneRaises(1)
    \/ GetFiles(1)
    \/ GetFilesRaises(1)
    \/ DirectoryScanner(1)
    \/ EndDirectoryScanners(1)
    \/ ScanNextFile(1)
    \/ Complete(1)
    \/ DeduplicateRaises(1)
    \/ Except(1)
    \/ Cleanup(1)
    \/ CleanupRmtreeRaises(1)
    \/ CancelScan(1)

SpecScan == InitScan /\ [][NextScan]_vars

---------------------------------------------------------------------------
(* The run of two scans at once: two requests arrive, an orchestrator is   *)
(* built for each, and the two scan() calls interleave step by step        *)

\* the requests of the two scans
ConcurrentRequests(s) ==
    { ScanRequest(s, [scheme |-> "https://", rest |-> "github.com/acme/app.git"],
                  "ghp_token", "CUSTOM", TRUE,
                  <<"SECRETS_EXPOSURE", "DEPENDENCY">>),
      ScanRequest(s, [scheme |-> "https://", rest |-> "github.com/acme/mixed.git"],
                  None, "CUSTOM", TRUE, <<"SECRETS_EXPOSURE", "CODE_QUALITY">>),
      ScanRequest(s, NoUrl, None, "FULL", FALSE, <<>>) }

InitConcurrent ==
    /\ pc = "scans"
    /\ DedupIdle
    /\ SelectIdle
    /\ orchestrator \in
          [ScanIds -> { SecurityScanner(req) :
                          req \in UNION { ConcurrentRequests(s) : s \in ScanIds } }]
    /\ \A s \in ScanIds : orchestrator[s].request.scan_id = s
    /\ result = [s \in ScanIds |-> ScanResult(s, "absent", FALSE)]
    /\ frame = [s \in ScanIds |-> Frame("constructed")]
    /\ disk = [n \in DirNames |-> NoDirectory]
    /\ Config = ConfigDefaults
    /\ data = [s \in ScanIds |-> NoData]
    /\ trace = [s \in ScanIds |-> NoTrace]

NextConcurrent == \E s \in ScanIds : ScanStep(s)

SpecConcurrent == InitConcurrent /\ [][NextConcurrent]_vars

---------------------------------------------------------------------------
(* A scan submitted through the route: POST /scan arrives with its JSON    *)
(* body, start_scan builds the ScanRequest and the SecurityScanner, and    *)
(* calls scan()                                                            *)

\* start_scan: the ScanRequest built from the body; no scanners= is given,
\* so the field keeps its default None
RouteScanRequest(d) ==
    [ScanRequest(d.scan_id, d.repository.clone_url, d.repository.access_token,
                 d.options.scan_type, FALSE, <<>>)
        EXCEPT !.file_patterns = d.options.file_patterns,
               !.exclude_patterns = d.options.exclude_patterns]

\* start_scan: data = request.get_json(), and 400 when there is none;
\* scan_request = ScanRequest(...); scanner = SecurityScanner(scan_request);
\* scanner.scan() is the steps of scan s that follow
start_scan(s) ==
    /\ frame[s].pc = "absent"
    /\ data[s].present
    /\ orchestrator' = [orchestrator EXCEPT
          ![s] = SecurityScanner(RouteScanRequest(data[s]))]
    /\ frame' = [frame EXCEPT ![s] = Frame("constructed")]
    /\ UNCHANGED <<result, disk, trace, notScan>>

\* the bodies of the POST /scan for scan s: of a repository or of a null
\* clone_url, of any scan type, with or without a category list
Payloads(s) ==
    { Payload(s, u, None, t, TRUE, l, <<>>, <<>>) :
        u \in { [scheme |-> "https://", rest |-> "github.com/acme/app.git"],
                NoUrl },
        t \in ScanTypes, l \in CategoryLists(MaxScanCategories) }
      \cup
    { Payload(s, u, None, t, FALSE, <<>>, <<>>, <<>>) :
        u \in { [scheme |-> "https://", rest |-> "github.com/acme/app.git"],
                NoUrl },
        t \in ScanTypes }

InitSubmit ==
    /\ pc = "submit"
    /\ DedupIdle
    /\ SelectIdle
    /\ \E d \in Payloads(1) :
          data = [s \in ScanIds |-> IF s = 1 THEN d ELSE NoData]
    /\ orchestrator =
          [s \in ScanIds |->
              [request |-> ScanRequest(s, NoUrl, None, "FULL", FALSE, <<>>),
               temp_dir |-> None, scanners |-> <<>>,
               directory_scanners |-> <<>>]]
    /\ result = [s \in ScanIds |-> ScanResult(s, "absent", FALSE)]
    /\ frame = [s \in ScanIds |-> Frame("absent")]
    /\ disk = [n \in DirNames |-> NoDirectory]
    /\ trace = [s \in ScanIds |-> NoTrace]
    /\ Config = ConfigDefaults

NextSubmit ==
    \/ start_scan(1)
    \/ ScanStep(1)

SpecSubmit == InitSubmit /\ [][NextSubmit]_vars

---------------------------------------------------------------------------
(* Two scans of one repository whose requests differ in the glob patterns  *)
(* only: the first carries file_patterns and exclude_patterns, or either,  *)
(* or neither, and the second carries none                                 *)

\* the values of file_patterns: none, and ['*.js']
FilePatterns == { <<>>, << <<42, 46, 106, 115>> >> }

\* the values of exclude_patterns: none, and ['a.py']
ExcludePatterns == { <<>>, << <<97, 46, 112, 121>> >> }

\* the requests the two scans are made of, before their patterns are set
PatternRequests(s) ==
    { ScanRequest(s, [scheme |-> "https://", rest |-> "github.com/acme/app.git"],
                  None, "CUSTOM", TRUE, <<"SECRETS_EXPOSURE", "DEPENDENCY">>),
      ScanRequest(s, [scheme |-> "https://", rest |-> "github.com/acme/mixed.git"],
                  None, "CUSTOM", TRUE, <<"SECRETS_EXPOSURE", "DEPENDENCY">>),
      ScanRequest(s, NoUrl, None, "FULL", FALSE, <<>>) }

InitPatterns ==
    /\ pc = "patterns"
    /\ DedupIdle
    /\ SelectIdle
    /\ \E r1 \in PatternRequests(1), f \in FilePatterns, x \in ExcludePatterns :
          orchestrator =
             [s \in ScanIds |->
                 IF s = 1
                 THEN SecurityScanner([r1 EXCEPT !.file_patterns = f,
                                                 !.exclude_patterns = x])
                 ELSE SecurityScanner([r1 EXCEPT !.scan_id = s])]
    /\ result = [s \in ScanIds |-> ScanResult(s, "absent", FALSE)]
    /\ frame = [s \in ScanIds |-> Frame("constructed")]
    /\ disk = [n \in DirNames |-> NoDirectory]
    /\ trace = [s \in ScanIds |-> NoTrace]
    /\ Config = ConfigDefaults
    /\ data = [s \in ScanIds |-> NoData]

NextPatterns == \E s \in ScanIds : ScanStep(s)

SpecPatterns == InitPatterns /\ [][NextPatterns]_vars

---------------------------------------------------------------------------
(* The enumeration alone: a scan that has cloned some working copy calls   *)
(* _get_files_to_scan, under a file limit the environment may have set     *)

\* the most entries of the working copy that is enumerated
MaxTreeLen == 3

\* the files a working copy is made of: two source files at the root (one
\* with an upper-case name), one in a source directory, one in an excluded
\* directory, one over the size limit, and one with no scannable extension
TreeFiles ==
    { File(<<97, 46, 112, 121>>, 400, TRUE, {}, 0),                       \* a.py
      File(<<65, 66, 46, 80, 89>>, 300, TRUE, {}, 0),                     \* AB.PY
      File(<<115, 114, 99, 47, 98, 46, 116, 115>>, 700, TRUE, {}, 0),     \* src/b.ts
      File(<<100, 105, 115, 116, 47, 97, 46, 106, 115>>, 500, TRUE, {}, 0), \* dist/a.js
      File(<<98, 105, 103, 46, 106, 115, 111, 110>>, 20000000, TRUE, {}, 0), \* big.json
      File(<<82, 69, 65, 68, 77, 69, 46, 109, 100>>, 900, TRUE, {}, 0) }  \* README.md

\* the working copies of n entries at most, in every order rglob may yield
Trees(n) ==
    UNION { { t \in [1..k -> TreeFiles] :
                \A i, j \in 1..k : i # j => t[i].path # t[j].path } :
            k \in 0..n }

\* the values of MAX_FILES_PER_SCAN in the environment: small ones, and
\* none (the default)
FileLimits == {1, 2, MAX_FILES_PER_SCAN}

InitEnumerate ==
    /\ pc = "enumerate"
    /\ DedupIdle
    /\ SelectIdle
    /\ \E n \in FileLimits :
          Config = [ConfigDefaults EXCEPT !.MAX_FILES_PER_SCAN = n]
    /\ data = [s \in ScanIds |-> NoData]
    /\ orchestrator =
          [s \in ScanIds |->
              IF s = 1
              THEN [SecurityScanner(ScanRequest(1,
                        [scheme |-> "https://", rest |-> "github.com/acme/app.git"],
                        None, "FULL", FALSE, <<>>))
                    EXCEPT !.temp_dir = "gitscan_a"]
              ELSE [request |-> ScanRequest(s, NoUrl, None, "FULL", FALSE, <<>>),
                    temp_dir |-> None, scanners |-> <<>>,
                    directory_scanners |-> <<>>]]
    /\ result = [s \in ScanIds |->
                    IF s = 1 THEN ScanResult(1, "RUNNING", TRUE)
                    ELSE ScanResult(s, "absent", FALSE)]
    /\ frame = [s \in ScanIds |->
                   IF s = 1
                   THEN [Frame("get_files") EXCEPT
                            !.temp_dir = "gitscan_a",
                            !.clone_url = PrepareCloneUrl(orchestrator[1].request)]
                   ELSE Frame("absent")]
    /\ \E t \in Trees(MaxTreeLen) :
          disk = [n \in DirNames |->
                     IF n = "gitscan_a" THEN [exists |-> TRUE, tree |-> t]
                     ELSE NoDirectory]
    /\ trace = [s \in ScanIds |->
                   IF s = 1 THEN [NoTrace EXCEPT !.steps = <<"_clone_repository">>]
                   ELSE NoTrace]

NextEnumerate ==
    \/ GetFiles(1)
    \/ GetFilesRaises(1)

SpecEnumerate == InitEnumerate /\ [][NextEnumerate]_vars

---------------------------------------------------------------------------
(* Vocabulary of the properties *)

\* the number of positions of list s that hold r
Count(s, r) == Cardinality({ i \in 1..Len(s) : s[i] = r })

\* the elements of list s
Elems(s) == { s[i] : i \in 1..Len(s) }

\* a pass of the dedup engine has returned
Returned == pc \in {"deduplicated", "again"}

\* the criticality order: CRITICAL=0 < HIGH=1 < MEDIUM=2 < LOW=3 < INFO=4
Criticality(v) ==
    CHOOSE n \in 1..5 :
        <<"CRITICAL", "HIGH", "MEDIUM", "LOW", "INFO">>[n] = v.severity

\* (rank, path, line) of a is lexicographically at most that of b
OrderedPair(a, b) ==
    \/ Criticality(a) < Criticality(b)
    \/ /\ Criticality(a) = Criticality(b)
       /\ StrLess(a.file_path, b.file_path)
    \/ /\ Criticality(a) = Criticality(b)
       /\ a.file_path = b.file_path
       /\ a.start_line <= b.start_line

\* a and b have the same (rank, path, line)
SameSortKey(a, b) ==
    /\ a.severity = b.severity
    /\ a.file_path = b.file_path
    /\ a.start_line = b.start_line

SameTriple(a, b) ==
    /\ a.file_path = b.file_path
    /\ a.start_line = b.start_line
    /\ a.category = b.category

SamePair(a, b) ==
    /\ a.file_path = b.file_path
    /\ a.category = b.category

\* some tool finding reports the triple / the (file, category) pair of v
ToolAtTriple(v) == \E t \in Elems(professional_vulns) : SameTriple(t, v)
ToolAtPair(v) == \E t \in Elems(professional_vulns) : SamePair(t, v)

\* the confidence of v in hundredths, 0.7 when unset
ConfidenceOrDefault(v) == IF v.fix_confidence = NoConfidence THEN 70 ELSE v.fix_confidence

\* how many copies of r the output holds beyond the tool findings equal to r
SurvivingCopies(r) == Count(all_vulns, r) - Count(professional_vulns, r)

\* the filter as section 4.3 states it
SurvivesFilter(v) ==
    /\ ~ToolAtTriple(v)
    /\ \/ ConfidenceOrDefault(v) >= 95
       \/ ~(ToolAtPair(v) /\ ConfidenceOrDefault(v) < 85)

\* no two positions of list s hold findings with the same triple
DuplicateFree(s) ==
    \A i, j \in 1..Len(s) : i # j => ~SameTriple(s[i], s[j])

\* list s without its position i
WithoutAt(s, i) == SubSeq(s, 1, i - 1) \o SubSeq(s, i + 1, Len(s))

\* the lists that are permutations of list s
RECURSIVE Reorderings(_)
Reorderings(s) ==
    IF s = <<>> THEN { <<>> }
    ELSE UNION { { <<s[i]>> \o r : r \in Reorderings(WithoutAt(s, i)) } :
                   i \in 1..Len(s) }

\* lists s and t hold the same findings with the same multiplicities
SameBag(s, t) ==
    /\ Len(s) = Len(t)
    /\ \A r \in Elems(s) \cup Elems(t) : Count(s, r) = Count(t, r)

---------------------------------------------------------------------------
(* Properties of the dedup engine, under SpecDedup *)

\* C1: the returned list is ordered: any two adjacent findings a then b have
\* (criticality rank, file path, start line) of a lexicographically at most
\* that of b.
C1_Ordered ==
    Returned =>
        \A i \in 1..(Len(all_vulns) - 1) : OrderedPair(all_vulns[i], all_vulns[i + 1])

\* C1 witness: a pass returned three findings in an order other than the one
\* they were collected in, two of them differing only from the path on.
C1_Witness ==
    /\ pc = "deduplicated"
    /\ Len(all_vulns) >= 3
    /\ all_vulns # professional_vulns \o regex_vulns
    /\ \E i \in 1..(Len(all_vulns) - 1) :
          /\ all_vulns[i].severity = all_vulns[i + 1].severity
          /\ all_vulns[i].file_path # all_vulns[i + 1].file_path

\* C2: a regex finding whose (file, line, category) triple is the triple of
\* some tool finding is absent from the output whatever its confidence, and
\* every tool finding is present.
C2_ExactDuplicateDropped ==
    Returned =>
        /\ \A v \in Elems(regex_vulns) : ToolAtTriple(v) => SurvivingCopies(v) = 0
        /\ \A t \in Elems(professional_vulns) : Count(all_vulns, t) >= 1

\* C2 witness: a regex finding of confidence 0.95 and one of lower
\* confidence were each collected at the triple of a tool finding.
C2_Witness ==
    /\ pc = "deduplicated"
    /\ \E v \in Elems(regex_vulns) : ToolAtTriple(v) /\ v.fix_confidence >= 95
    /\ \E v \in Elems(regex_vulns) : ToolAtTriple(v) /\ v.fix_confidence < 95

\* C3: a regex finding whose triple no tool reports is discarded exactly
\* when some tool finding has its (file, category) pair and its confidence
\* (0.7 when unset) is below 0.85; otherwise every copy of it is kept.
C3_CoarseOverlapRule ==
    Returned =>
        \A v \in Elems(regex_vulns) :
            ~ToolAtTriple(v) =>
                IF ToolAtPair(v) /\ ConfidenceOrDefault(v) < 85
                THEN SurvivingCopies(v) = 0
                ELSE SurvivingCopies(v) = Count(regex_vulns, v)

\* C3 witness: under a (file, category) overlap without an exact match, one
\* regex finding of confidence below 0.85 and one of confidence 0.85 or more
\* went through the filter.
C3_Witness ==
    /\ pc = "deduplicated"
    /\ \E v \in Elems(regex_vulns) :
          ~ToolAtTriple(v) /\ ToolAtPair(v) /\ ConfidenceOrDefault(v) < 85
    /\ \E v \in Elems(regex_vulns) :
          ~ToolAtTriple(v) /\ ToolAtPair(v) /\ ConfidenceOrDefault(v) >= 85

\* C4: the output is, as a multiset, all tool findings with their input
\* multiplicity plus the regex findings that survive the filter.
C4_OutputMultiset ==
    Returned =>
        /\ Len(all_vulns) =
              Len(professional_vulns)
              + Cardinality({ i \in 1..Len(regex_vulns) : SurvivesFilter(regex_vulns[i]) })
        /\ \A r \in Elems(all_vulns) \cup Elems(professional_vulns) \cup Elems(regex_vulns) :
              Count(all_vulns, r) =
                  Count(professional_vulns, r)
                  + Cardinality({ i \in 1..Len(regex_vulns) :
                                    regex_vulns[i] = r /\ SurvivesFilter(r) })

\* C4 witness: a pass returned a tool finding held twice, a surviving regex
\* finding, and the sort moved a finding.
C4_Witness ==
    /\ pc = "deduplicated"
    /\ \E t \in Elems(professional_vulns) : Count(professional_vulns, t) = 2
    /\ \E v \in Elems(regex_vulns) : SurvivesFilter(v)
    /\ all_vulns # professional_vulns \o regex_vulns

\* C5 as stated: no two findings of the output share a (file, line,
\* category) triple.
C5_DuplicateFree == Returned => DuplicateFree(all_vulns)

\* C5 as amended: when no two tool findings share a triple and no two regex
\* findings share a triple, no two findings of the output share a triple.
C5_DuplicateFreeAcrossOrigins ==
    (Returned /\ DuplicateFree(professional_vulns) /\ DuplicateFree(regex_vulns))
        => DuplicateFree(all_vulns)

\* C5 witness: from duplicate-free inputs, a regex finding of confidence 0.95
\* at the triple of a tool finding went through the filter next to another
\* regex finding.
C5_Witness ==
    /\ pc = "deduplicated"
    /\ DuplicateFree(professional_vulns)
    /\ DuplicateFree(regex_vulns)
    /\ Len(regex_vulns) >= 2
    /\ \E v \in Elems(regex_vulns) : ToolAtTriple(v) /\ v.fix_confidence >= 95

\* C6: a second pass over the returned list, given as the regex findings or
\* as the tool findings, returns that list element by element.
C6_Idempotent == pc = "again" => all_vulns = prev_vulns

\* C6 witness: the second pass ran over a list that holds a regex finding of
\* confidence below 0.85 and two different findings tied on the sort key.
C6_Witness ==
    /\ pc = "again"
    /\ \E v \in Elems(prev_vulns) : ConfidenceOrDefault(v) < 85
    /\ \E i \in 1..(Len(prev_vulns) - 1) :
          /\ SameSortKey(prev_vulns[i], prev_vulns[i + 1])
          /\ prev_vulns[i] # prev_vulns[i + 1]

\* C7: with no tool findings the output is a permutation of the regex
\* findings.
C7_NoToolsKeepsAll ==
    (Returned /\ professional_vulns = <<>>) => SameBag(all_vulns, regex_vulns)

\* C7 witness: with no tool findings, regex findings of confidence below
\* 0.85 and of unset confidence were collected and returned in another order.
C7_Witness ==
    /\ pc = "deduplicated"
    /\ professional_vulns = <<>>
    /\ \E v \in Elems(regex_vulns) : v.fix_confidence = 75
    /\ \E v \in Elems(regex_vulns) : v.fix_confidence = NoConfidence
    /\ all_vulns # regex_vulns

\* C8 as stated: for inputs that are permutations of the collected lists, the
\* output is the same list element by element.
C8_OrderIndependent ==
    pc = "deduplicated" =>
        \A t \in Reorderings(professional_vulns), r \in Reorderings(regex_vulns) :
            Deduplicate(t, r) = all_vulns

\* C8 as amended: for inputs that are permutations of the collected lists,
\* the output holds the same findings with the same multiplicities and has
\* the same (severity, file path, start line) at every position.
C8_OrderIndependentUpToTies ==
    pc = "deduplicated" =>
        \A t \in Reorderings(professional_vulns), r \in Reorderings(regex_vulns) :
            LET other == Deduplicate(t, r)
            IN  /\ SameBag(other, all_vulns)
                /\ \A i \in 1..Len(all_vulns) : SameSortKey(other[i], all_vulns[i])

\* C8 witness: two different tool findings and a regex finding that only one
\* of them overlaps were collected.
C8_Witness ==
    /\ pc = "deduplicated"
    /\ Len(professional_vulns) = 2
    /\ professional_vulns[1] # professional_vulns[2]
    /\ \E v \in Elems(regex_vulns) :
          /\ SameTriple(professional_vulns[1], v)
          /\ ~SamePair(professional_vulns[2], v)

\* C9: a finding of SecretsScanner.scan for file F at line L is in the
\* output whenever every SECRETS_EXPOSURE tool finding in F is at a line
\* other than L.
C9_SecretMatchKept ==
    pc = "deduplicated" =>
        \A v \in Elems(regex_vulns) \cap SecretsFindings :
            (\A t \in Elems(professional_vulns) :
                (t.category = "SECRETS_EXPOSURE" /\ t.file_path = v.file_path)
                    => t.start_line # v.start_line)
            => Count(all_vulns, v) >= 1

\* the findings of list s that tie with v on (severity, file path, start line)
TiesOf(s, v) == SelectSeq(s, LAMBDA x : SameSortKey(x, v))

\* C21: the sort is stable: among the output findings that tie on severity,
\* file path and start line, the tool findings come first, in their input
\* order, and the surviving pattern findings follow, in their input order.
C21_StableSort ==
    pc = "deduplicated" =>
        \A v \in Elems(all_vulns) :
            TiesOf(all_vulns, v) =
                TiesOf(professional_vulns, v)
                    \o TiesOf(SelectSeq(regex_vulns, SurvivesFilter), v)

\* C21 witness: the output holds three findings, a tool finding directly
\* followed by a surviving pattern finding that ties with it on the sort key.
C21_Witness ==
    /\ pc = "deduplicated"
    /\ Len(all_vulns) = 3
    /\ Len(professional_vulns) = 1
    /\ \E i \in 1..2 :
          /\ all_vulns[i] = professional_vulns[1]
          /\ all_vulns[i + 1] \in Elems(regex_vulns)
          /\ SameSortKey(all_vulns[i], all_vulns[i + 1])

---------------------------------------------------------------------------
(* Properties of the scanner selection, under SpecSelect *)

\* the request is CUSTOM with a non-empty category list
CustomSelection ==
    /\ request.scan_type = "CUSTOM"
    /\ request.has_scanners
    /\ request.scanners # <<>>

\* no two positions of list s hold the same value
NoRepeats(s) == \A i, j \in 1..Len(s) : i # j => s[i] # s[j]

\* C10: for a CUSTOM request with a non-empty category list the scanner
\* lists hold each implementation at most once, the list [SECRETS_EXPOSURE,
\* SQL_INJECTION, COMMAND_INJECTION] selects exactly two file scanners, and
\* each selected scanner is invoked once on a file.
C10_OneInstancePerImplementation ==
    (pc \in {"constructed", "file_scanned"} /\ CustomSelection) =>
        /\ NoRepeats(scanners)
        /\ NoRepeats(directory_scanners)
        /\ Elems(scanners) \cap Elems(directory_scanners) = {}
        /\ request.scanners = <<"SECRETS_EXPOSURE", "SQL_INJECTION", "COMMAND_INJECTION">>
              => Len(scanners) = 2 /\ Len(directory_scanners) = 0
        /\ pc = "file_scanned" =>
              \A s \in Elems(scanners) : Count(invoked, s) = 1

\* C10 witness: the orchestrator built for [SECRETS_EXPOSURE, SQL_INJECTION,
\* COMMAND_INJECTION] has scanned a file.
C10_Witness ==
    /\ pc = "file_scanned"
    /\ CustomSelection
    /\ request.scanners = <<"SECRETS_EXPOSURE", "SQL_INJECTION", "COMMAND_INJECTION">>
    /\ Len(invoked) = 2

\* C11: a FULL request, a QUICK request, and a CUSTOM request whose category
\* list is absent or empty all select the seven file scanners XSS, Injection,
\* Secrets, CSRF, Session, IDOR, Misconfig and the three directory scanners
\* Semgrep, Bandit, Dependency; under FULL and QUICK a supplied list is ignored.
C11_FullRoster ==
    (/\ pc \in {"constructed", "file_scanned"}
     /\ (request.scan_type \in {"FULL", "QUICK"} \/ ~CustomSelection)) =>
        /\ scanners = <<"XSSScanner", "InjectionScanner", "SecretsScanner",
                        "CSRFScanner", "SessionScanner", "IDORScanner",
                        "MisconfigScanner">>
        /\ directory_scanners =
              <<"SemgrepScanner", "BanditScanner", "DependencyScanner">>
        /\ pc = "file_scanned" => invoked = scanners

\* C11 witness: a QUICK request that supplies the list [SECRETS_EXPOSURE] has
\* been constructed and has scanned a file with the seven file scanners.
C11_Witness ==
    /\ pc = "file_scanned"
    /\ request.scan_type = "QUICK"
    /\ request.has_scanners
    /\ request.scanners = <<"SECRETS_EXPOSURE">>
    /\ Len(invoked) = 7

---------------------------------------------------------------------------
(* Properties of scan(), under SpecScan *)

\* scan s has returned
HasReturned(s) == frame[s].pc = "returned"

\* scan s acquired its working copy: scan() assigns self.temp_dir a name
\* only when _clone_repository returned one
Acquired(s) == orchestrator[s].temp_dir # None

\* no exception reached the handler of scan s
NoException(s) == frame[s].e = None

\* the scanner list of scan s takes part in the selection
CustomScan(s) ==
    /\ orchestrator[s].request.scan_type = "CUSTOM"
    /\ orchestrator[s].request.has_scanners
    /\ orchestrator[s].request.scanners # <<>>

\* C12: for a CUSTOM request with a non-empty category list the selected
\* scanners are exactly the implementations that own a listed category
\* (Semgrep and Bandit for CODE_QUALITY, Dependency for DEPENDENCY); a
\* category no scanner owns adds nothing; a list of such categories only
\* selects no scanner at all, and the scan that acquired its working copy and
\* met no exception still returns COMPLETED.
C12_CustomSelectsOwners ==
    \A s \in ScanIds :
        (frame[s].pc # "absent" /\ CustomScan(s)) =>
            LET listed == Elems(orchestrator[s].request.scanners) IN
            /\ Elems(orchestrator[s].scanners) =
                  { scanner_map[c] : c \in listed \cap DOMAIN scanner_map }
            /\ Elems(orchestrator[s].directory_scanners) =
                  (IF "CODE_QUALITY" \in listed
                   THEN {"SemgrepScanner", "BanditScanner"} ELSE {})
                    \cup
                  (IF "DEPENDENCY" \in listed THEN {"DependencyScanner"} ELSE {})
            /\ (listed \cap (DOMAIN scanner_map \cup DOMAIN directory_scanner_map) = {}) =>
                  /\ orchestrator[s].scanners = <<>>
                  /\ orchestrator[s].directory_scanners = <<>>
                  /\ trace[s].calls = <<>>
                  /\ (HasReturned(s) /\ Acquired(s) /\ NoException(s)) =>
                        /\ result[s].status = "COMPLETED"
                        /\ result[s].vulnerabilities = <<>>

\* C12 witness: a CUSTOM scan listing only XXE, a category no scanner owns,
\* has returned COMPLETED from a repository with a scannable file, having
\* called no scanner.
C12_Witness ==
    \E s \in ScanIds :
        /\ HasReturned(s)
        /\ CustomScan(s)
        /\ orchestrator[s].request.scanners = <<"XXE">>
        /\ result[s].status = "COMPLETED"
        /\ result[s].total_files > 0
        /\ trace[s].calls = <<>>

\* C13: when acquisition fails the returned result is FAILED with a
\* non-empty error message, no findings, total_files = 0 and files_scanned =
\* 0, and no scanner was invoked.
C13_AcquisitionFailure ==
    \A s \in ScanIds :
        (HasReturned(s) /\ ~Acquired(s)) =>
            /\ result[s].status = "FAILED"
            /\ result[s].error_message \notin {None, ""}
            /\ result[s].vulnerabilities = <<>>
            /\ result[s].total_files = 0
            /\ result[s].files_scanned = 0
            /\ trace[s].calls = <<>>

\* C13 witness: a scan whose clone raised GitError has returned.
C13_Witness ==
    \E s \in ScanIds :
        /\ HasReturned(s)
        /\ ~Acquired(s)
        /\ frame[s].temp_dir # None
        /\ result[s].error_message = "Failed to clone repository"

\* C14: however acquisition fails after the temporary directory was created
\* (GitError or any other exception of the clone step), the directory no
\* longer exists when scan() returns, unless its removal itself failed.
C14_FailedCloneLeavesNoDirectory ==
    \A s \in ScanIds :
        (/\ HasReturned(s)
         /\ ~Acquired(s)
         /\ frame[s].temp_dir # None
         /\ ~trace[s].rmtree_failed) =>
            ~disk[frame[s].temp_dir].exists

\* C15: on every path on which the working copy was acquired (completion, or
\* an exception of enumeration or dedup) cleanup runs exactly once, before
\* scan() returns, and unless the removal failed the working-copy directory
\* does not exist afterwards.
C15_CleanupOnceAfterAcquisition ==
    \A s \in ScanIds :
        /\ (frame[s].pc \notin {"absent", "returned"}) => trace[s].cleanups = 0
        /\ (HasReturned(s) /\ Acquired(s)) =>
              /\ trace[s].cleanups = 1
              /\ ~trace[s].rmtree_failed =>
                    ~disk[orchestrator[s].temp_dir].exists

\* C15 witness: a scan that acquired its working copy and then met an
\* exception has returned FAILED.
C15_Witness ==
    \E s \in ScanIds :
        /\ HasReturned(s)
        /\ Acquired(s)
        /\ result[s].status = "FAILED"
        /\ trace[s].cleanups = 1
        /\ ~disk[orchestrator[s].temp_dir].exists

\* the repository of scan s holds one file only, of a non-scannable
\* extension
OnlyNonScannableFile(s) ==
    /\ orchestrator[s].request.clone_url # NoUrl
    /\ LET tree == Repositories[orchestrator[s].request.clone_url.rest] IN
          /\ Len(tree) = 1
          /\ Lower(Suffix(tree[1].path)) \notin SCANNABLE_EXTENSIONS

\* scan s is a FULL scan that acquired such a working copy and returned
\* without an exception
FullScanOfNonScannable(s) ==
    /\ orchestrator[s].request.scan_type = "FULL"
    /\ OnlyNonScannableFile(s)
    /\ HasReturned(s)
    /\ Acquired(s)
    /\ NoException(s)

\* C16, as stated: a FULL scan of a working copy whose only file has a
\* non-scannable extension returns total_files = 0, no findings and
\* COMPLETED, whatever the file (requirements.txt included).
C16_NonScannableNoFindings ==
    \A s \in ScanIds :
        FullScanOfNonScannable(s) =>
            /\ result[s].total_files = 0
            /\ result[s].vulnerabilities = <<>>
            /\ result[s].status = "COMPLETED"

\* the findings the directory scanners of scan s can report on its repository
DirectoryFindings(s) ==
    UNION { Elems(ScanDirectory(
                     orchestrator[s].directory_scanners[k],
                     Repositories[orchestrator[s].request.clone_url.rest])) :
            k \in 1..Len(orchestrator[s].directory_scanners) }

\* C16, amended: such a scan returns total_files = 0, files_scanned = 0 and
\* COMPLETED, calls no file scanner, and its findings are findings of the
\* directory scanners only: none when no directory tool reports on the file.
C16_NonScannableNoFileFindings ==
    \A s \in ScanIds :
        FullScanOfNonScannable(s) =>
            /\ result[s].total_files = 0
            /\ result[s].files_scanned = 0
            /\ result[s].status = "COMPLETED"
            /\ \A k \in 1..Len(trace[s].calls) :
                  trace[s].calls[k][2] = "directory"
            /\ Elems(result[s].vulnerabilities) \subseteq DirectoryFindings(s)

\* C16 witness: a FULL scan of the repository that holds requirements.txt
\* only has returned COMPLETED with total_files = 0 and the Safety finding.
C16_Witness ==
    \E s \in ScanIds :
        /\ FullScanOfNonScannable(s)
        /\ result[s].total_files = 0
        /\ result[s].vulnerabilities # <<>>
        /\ result[s].vulnerabilities[1].category = "DEPENDENCY"

\* C17: every execution of scan() returns a result and never raises: the
\* scan is always at a position of scan() or has returned (an exception of a
\* step is at the handler, the position "except"), and the returned result
\* is COMPLETED or FAILED, never RUNNING, with error_message set exactly
\* when it is FAILED.
C17_AlwaysReturnsResult ==
    \A s \in ScanIds :
        /\ frame[s].pc \in
              {"absent", "constructed", "mkdtemp", "clone_from", "get_files",
               "directory_scanners", "file_scanners", "except", "finally",
               "returned"}
        /\ frame[s].e # None => frame[s].pc \in {"except", "finally", "returned"}
        /\ HasReturned(s) =>
              /\ result[s].status \in {"COMPLETED", "FAILED"}
              /\ (result[s].error_message # None) <=> (result[s].status = "FAILED")

\* C17 witness: a scan whose dedup raised has returned FAILED with the
\* message of the exception.
C17_Witness ==
    \E s \in ScanIds :
        /\ HasReturned(s)
        /\ result[s].status = "FAILED"
        /\ result[s].error_message = NoneNotOrdered

\* C18: files_scanned is the number of enumerated files read and processed
\* so far; a file that could not be read is skipped and not counted.
C18_FilesScannedCountsReadFiles ==
    \A s \in ScanIds :
        frame[s].pc # "absent" => result[s].files_scanned = trace[s].files_read

\* C19: a cancel request for a scan in flight aborts it: no scanner is
\* invoked after the request and the scan does not return COMPLETED.
C19_CancelAborts ==
    \A s \in ScanIds :
        trace[s].cancelled =>
            /\ ~trace[s].called_after_cancel
            /\ HasReturned(s) => result[s].status # "COMPLETED"

\* the repository scan s clones
Repository(s) == Repositories[orchestrator[s].request.clone_url.rest]

\* the calls of directory scanners by scan s, in order
DirectoryCalls(s) == SelectSeq(trace[s].calls, LAMBDA c : c[2] = "directory")

\* C22: a directory scanner that raises, times out or prints what does not
\* parse contributes no finding; the scan stays RUNNING in the loop, every
\* selected directory scanner is still called once and the findings of those
\* that report are collected; the file loop still runs over every enumerated
\* file and the scan that meets no other exception returns COMPLETED: once
\* a scanner was called, the only exception that reaches the handler of
\* scan() is one of dedup, after both loops.
C22_DirectoryScannerFailureIsolated ==
    \A s \in ScanIds :
        /\ trace[s].failed \subseteq Elems(orchestrator[s].directory_scanners)
        /\ \A f \in trace[s].failed :
              Elems(ScanDirectory(f, Repository(s)))
                  \cap Elems(frame[s].professional_vulns) = {}
        /\ frame[s].pc = "directory_scanners" =>
              result[s].status = "RUNNING" /\ NoException(s)
        /\ (frame[s].pc = "file_scanners" \/ result[s].status = "COMPLETED") =>
              /\ DirectoryCalls(s) =
                    [k \in 1..Len(orchestrator[s].directory_scanners) |->
                        Call(orchestrator[s].directory_scanners[k], "directory")]
              /\ \A k \in 1..Len(orchestrator[s].directory_scanners) :
                    orchestrator[s].directory_scanners[k] \notin trace[s].failed =>
                        Elems(ScanDirectory(orchestrator[s].directory_scanners[k],
                                            Repository(s)))
                            \subseteq Elems(frame[s].professional_vulns)
        /\ (trace[s].failed # {} /\ HasReturned(s) /\ NoException(s)) =>
              /\ result[s].status = "COMPLETED"
              /\ result[s].files_scanned = result[s].total_files
        /\ (trace[s].calls # <<>> /\ ~NoException(s)) =>
              /\ frame[s].e = NoneNotOrdered
              /\ frame[s].scanner > Len(orchestrator[s].directory_scanners)
              /\ frame[s].i = Len(frame[s].files)

\* C22 witness: a FULL scan whose Semgrep call failed has returned COMPLETED
\* with the Safety finding of the scanner called after it and with a finding
\* of the file loop.
C22_Witness ==
    \E s \in ScanIds :
        /\ HasReturned(s)
        /\ result[s].status = "COMPLETED"
        /\ trace[s].failed = {"SemgrepScanner"}
        /\ Len(DirectoryCalls(s)) = 3
        /\ \E k \in 1..Len(result[s].vulnerabilities) :
              result[s].vulnerabilities[k].category = "DEPENDENCY"
        /\ frame[s].regex_vulns # <<>>

\* the files scan s has taken in its file loop so far, as positions of files
FilesTaken(s) == 1..frame[s].i

\* the file of the repository of scan s at path p
RepositoryFile(s, p) ==
    LET tree == Repository(s) IN
    tree[CHOOSE k \in 1..Len(tree) : tree[k].path = p]

\* C23: a file that cannot be read, or a file scanner that raises on a file,
\* never aborts the scan: the scan stays RUNNING in the file loop with no
\* exception at its handler, on a file that was read every selected file
\* scanner is called once and the findings of those that return are kept to
\* the end of the loop, and the scan that meets no exception of dedup has
\* taken every enumerated file and returns COMPLETED.
C23_FileFailureIsolated ==
    \A s \in ScanIds :
        /\ frame[s].pc = "file_scanners" =>
              result[s].status = "RUNNING" /\ NoException(s)
        /\ \A k \in FilesTaken(s) :
              LET f == RepositoryFile(s, frame[s].files[k]) IN
              f.readable =>
                  \A j \in 1..Len(orchestrator[s].scanners) :
                      LET scanner_type == orchestrator[s].scanners[j] IN
                      /\ Count(trace[s].calls, Call(scanner_type, f.path)) = 1
                      /\ ~ScanRaises(scanner_type, f) =>
                            Elems(Scan(scanner_type, f))
                                \subseteq Elems(frame[s].regex_vulns)
        /\ (result[s].status = "COMPLETED"
              \/ (HasReturned(s) /\ Acquired(s) /\ NoException(s))) =>
              /\ result[s].status = "COMPLETED"
              /\ frame[s].i = Len(frame[s].files)
              /\ result[s].files_scanned = result[s].total_files

\* C23 witness: a FULL scan has returned COMPLETED from the repository whose
\* first enumerated file cannot be read and on whose second file CSRFScanner
\* raises, with the SecretsScanner finding on that second file.
C23_Witness ==
    \E s \in ScanIds :
        /\ HasReturned(s)
        /\ result[s].status = "COMPLETED"
        /\ orchestrator[s].request.scan_type = "FULL"
        /\ result[s].total_files = 2
        /\ trace[s].files_read = 1
        /\ ~RepositoryFile(s, frame[s].files[1]).readable
        /\ ScanRaises("CSRFScanner", RepositoryFile(s, frame[s].files[2]))
        /\ frame[s].regex_vulns # <<>>

\* n times the step named x
Times(n, x) == [k \in 1..n |-> x]

\* the scanner calls made on files, in the order they were made
FileCalls(s) == SelectSeq(trace[s].calls, LAMBDA c : c[2] # "directory")

\* C24: in a scan that acquired its working copy and ended COMPLETED the
\* steps occur in the order acquisition, enumeration, directory scanners,
\* file scanners, de-duplication and ranking, cleanup; each selected
\* directory scanner is called exactly once, on the root; every directory
\* scanner call precedes the first file scanner call; each selected file
\* scanner is called at most once per enumerated file; and the
\* de-duplication runs exactly once, after every scanner call and before
\* the cleanup.
C24_StepsInOrder ==
    \A s \in ScanIds :
        (HasReturned(s) /\ Acquired(s) /\ result[s].status = "COMPLETED") =>
            /\ trace[s].steps =
                  <<"_clone_repository", "_get_files_to_scan">>
                  \o Times(Len(orchestrator[s].directory_scanners),
                           "scan_directory")
                  \o Times(Len(frame[s].files), "_scan_file")
                  \o <<"_deduplicate_vulnerabilities", "_cleanup">>
            /\ DirectoryCalls(s) =
                  [k \in 1..Len(orchestrator[s].directory_scanners) |->
                      Call(orchestrator[s].directory_scanners[k], "directory")]
            /\ trace[s].calls = DirectoryCalls(s) \o FileCalls(s)
            /\ \A k \in 1..Len(orchestrator[s].scanners) :
                  \A i \in 1..Len(frame[s].files) :
                      Count(trace[s].calls,
                            Call(orchestrator[s].scanners[k],
                                 frame[s].files[i])) <= 1
            /\ \A c \in Elems(FileCalls(s)) :
                  /\ c[1] \in Elems(orchestrator[s].scanners)
                  /\ c[2] \in Elems(frame[s].files)
            /\ Count(trace[s].steps, "_deduplicate_vulnerabilities") = 1

\* C24 witness: a FULL scan of a repository with a source file and a
\* requirements file returned COMPLETED after directory scanners and file
\* scanners were called
C24_Witness ==
    \E s \in ScanIds :
        /\ HasReturned(s)
        /\ Acquired(s)
        /\ result[s].status = "COMPLETED"
        /\ orchestrator[s].request.scan_type = "FULL"
        /\ DirectoryCalls(s) # <<>>
        /\ FileCalls(s) # <<>>
        /\ Len(frame[s].files) = 2
        /\ trace[s].steps[Len(trace[s].steps)] = "_cleanup"

\* C26, as stated: every result scan() returns with a terminal status,
\* COMPLETED or FAILED (through the handler of scan() or through a failed
\* acquisition), has its completion time set, and its start time set.
C26_TerminalHasCompletionTime ==
    \A s \in ScanIds :
        (HasReturned(s) /\ result[s].status \in {"COMPLETED", "FAILED"}) =>
            /\ result[s].completed_at
            /\ result[s].started_at

\* scan s has called Repo.clone_from
CloneCalled(s) == frame[s].clone_url # <<>>

\* C27, as stated: when the request carries an access token the URL given
\* to the clone holds it, whatever the scheme of the clone URL; when it
\* carries none the clone URL is given unchanged.
C27_CredentialWovenIntoUrl ==
    \A s \in ScanIds :
        CloneCalled(s) =>
            LET req == orchestrator[s].request IN
                /\ req.access_token # None =>
                      req.access_token \in Elems(frame[s].clone_url)
                /\ req.access_token = None =>
                      frame[s].clone_url = <<req.clone_url.scheme, req.clone_url.rest>>

\* the statuses a result ends in
TerminalStatuses == {"COMPLETED", "FAILED"}

\* C28: during one scan() the status of the result starts as RUNNING and
\* changes once, to COMPLETED or to FAILED; once it is COMPLETED or FAILED
\* no field of the result is modified again, so a COMPLETED result never
\* becomes FAILED; and a FAILED result carries no findings.
C28_TerminalResultFrozen ==
    [][\A s \in ScanIds :
          /\ result[s].status \in TerminalStatuses => result'[s] = result[s]
          /\ result[s].status = "absent" =>
                result'[s].status \in {"absent", "RUNNING"}
          /\ result[s].status = "RUNNING" =>
                result'[s].status \in {"RUNNING"} \cup TerminalStatuses
          /\ result'[s].status = "FAILED" => result'[s].vulnerabilities = <<>>
          /\ frame'[s].pc = "returned" => result'[s].status \in TerminalStatuses
      ]_vars

\* C28 witness: a scan whose de-duplication raised, after files were
\* enumerated and tool findings collected, was made FAILED by the handler
\* and has returned after the cleanup, with no findings in its result
C28_Witness ==
    \E s \in ScanIds :
        /\ HasReturned(s)
        /\ result[s].status = "FAILED"
        /\ frame[s].e = NoneNotOrdered
        /\ frame[s].professional_vulns # <<>>
        /\ result[s].total_files > 0
        /\ result[s].vulnerabilities = <<>>
        /\ trace[s].steps[Len(trace[s].steps)] = "_cleanup"

---------------------------------------------------------------------------
(* Properties of a scan submitted through the route, under SpecSubmit *)

\* scan s was submitted as a CUSTOM scan with a category list in the body
CustomSubmitted(s) ==
    /\ data[s].present
    /\ frame[s].pc # "absent"
    /\ data[s].options.scan_type = "CUSTOM"
    /\ data[s].options.has_scanners
    /\ data[s].options.scanners # <<>>

\* C29, as stated: for a scan submitted through start_scan as CUSTOM with
\* a non-empty category list in the body, the list reaches the ScanRequest
\* of the orchestrator, and the scanners selected and called are those that
\* own a listed category, not the whole roster.
C29_SubmittedListSelects ==
    \A s \in ScanIds :
        CustomSubmitted(s) =>
            LET listed == Elems(data[s].options.scanners) IN
            /\ orchestrator[s].request.has_scanners
            /\ orchestrator[s].request.scanners = data[s].options.scanners
            /\ Elems(orchestrator[s].scanners) =
                  { scanner_map[c] : c \in listed \cap DOMAIN scanner_map }
            /\ Elems(orchestrator[s].directory_scanners) =
                  (IF "CODE_QUALITY" \in listed
                   THEN {"SemgrepScanner", "BanditScanner"} ELSE {})
                    \cup
                  (IF "DEPENDENCY" \in listed THEN {"DependencyScanner"} ELSE {})
            /\ \A c \in Elems(FileCalls(s)) :
                  c[1] \in { scanner_map[k] : k \in listed \cap DOMAIN scanner_map }

---------------------------------------------------------------------------
(* Properties of two scans that differ in their patterns, under            *)
(* SpecPatterns                                                            *)

\* a request without what tells two submissions of one scan apart: its
\* scan id and its patterns
WithoutPatterns(req) ==
    [req EXCEPT !.scan_id = 0, !.file_patterns = <<>>, !.exclude_patterns = <<>>]

\* scans s1 and s2 have returned after the same things went wrong around
\* them: the same acquisition outcome, the same exception if any, and the
\* same directory tools that failed or reported nothing
SameOutcomes(s1, s2) ==
    /\ HasReturned(s1)
    /\ HasReturned(s2)
    /\ Acquired(s1) = Acquired(s2)
    /\ frame[s1].e = frame[s2].e
    /\ trace[s1].failed = trace[s2].failed

\* C30: file_patterns and exclude_patterns have no effect: two scans of one
\* working copy whose requests differ only in them enumerate the same
\* files, call the same scanners on the same files and return the same
\* total_files and findings.
C30_PatternsHaveNoEffect ==
    \A s1, s2 \in ScanIds :
        (/\ WithoutPatterns(orchestrator[s1].request) =
               WithoutPatterns(orchestrator[s2].request)
         /\ SameOutcomes(s1, s2)) =>
            /\ orchestrator[s1].scanners = orchestrator[s2].scanners
            /\ orchestrator[s1].directory_scanners =
                  orchestrator[s2].directory_scanners
            /\ frame[s1].files = frame[s2].files
            /\ trace[s1].calls = trace[s2].calls
            /\ result[s1].status = result[s2].status
            /\ result[s1].total_files = result[s2].total_files
            /\ result[s1].files_scanned = result[s2].files_scanned
            /\ result[s1].vulnerabilities = result[s2].vulnerabilities

\* C30 witness: a scan whose request carries file_patterns ['*.js'] and
\* exclude_patterns ['a.py'] and a scan whose request carries neither have
\* both returned COMPLETED with findings, having enumerated a.py first
C30_Witness ==
    /\ orchestrator[1].request.file_patterns = << <<42, 46, 106, 115>> >>
    /\ orchestrator[1].request.exclude_patterns = << <<97, 46, 112, 121>> >>
    /\ orchestrator[2].request.file_patterns = <<>>
    /\ orchestrator[2].request.exclude_patterns = <<>>
    /\ SameOutcomes(1, 2)
    /\ result[1].status = "COMPLETED"
    /\ result[2].status = "COMPLETED"
    /\ frame[1].files # <<>>
    /\ frame[1].files[1] = <<97, 46, 112, 121>>
    /\ frame[2].files = frame[1].files
    /\ result[1].vulnerabilities # <<>>

---------------------------------------------------------------------------
(* Properties of the enumeration, under SpecEnumerate *)

\* scan s has enumerated its working copy
Enumerated(s) == frame[s].pc = "directory_scanners"

\* file f is one the enumeration is to take: no component of its path is an
\* excluded directory, its lower-cased extension is scannable, and it is
\* no larger than the size limit
Eligible(f) ==
    /\ Elems(Parts(f.path)) \cap EXCLUDED_DIRS = {}
    /\ Lower(Suffix(f.path)) \in SCANNABLE_EXTENSIONS
    /\ f.size <= Config.MAX_FILE_SIZE_MB * 1024 * 1024

\* the paths of the eligible files of a tree, in its order
EligiblePaths(tree) ==
    LET eligible == SelectSeq(tree, Eligible)
    IN  [k \in 1..Len(eligible) |-> eligible[k].path]

---------------------------------------------------------------------------
(* Properties of concurrent scans, under SpecConcurrent *)

\* scan s holds its working copy: it acquired it and has not yet cleaned up
HoldsWorkingCopy(s) ==
    /\ Acquired(s)
    /\ frame[s].pc \in {"get_files", "directory_scanners", "file_scanners",
                        "except", "finally"}

\* the findings the file scanners of scan s can report on its repository
FileFindings(s) ==
    LET tree == Repositories[orchestrator[s].request.clone_url.rest] IN
    UNION { Elems(RunScanners(orchestrator[s].scanners, tree[k])) :
            k \in 1..Len(tree) }

\* the findings scan s can collect from its own repository
OwnFindings(s) ==
    IF orchestrator[s].request.clone_url = NoUrl THEN {}
    ELSE DirectoryFindings(s) \cup FileFindings(s)

\* C20: in every interleaving of two scans run by distinct instances, the
\* scans hold distinct working-copy directories; the working copy a scan
\* holds exists with the content that scan cloned, so no cleanup of the
\* other scan removed it; and the result, the scanner lists and the findings
\* of a scan are those of its own request and repository.
C20_ConcurrentScansIsolated ==
    \A s \in ScanIds :
        /\ \A t \in ScanIds \ {s} :
              (HoldsWorkingCopy(s) /\ HoldsWorkingCopy(t)) =>
                  orchestrator[s].temp_dir # orchestrator[t].temp_dir
        /\ HoldsWorkingCopy(s) =>
              /\ disk[orchestrator[s].temp_dir].exists
              /\ disk[orchestrator[s].temp_dir].tree =
                    Repositories[orchestrator[s].request.clone_url.rest]
        /\ orchestrator[s].scanners = InitFileScanners(orchestrator[s].request)
        /\ orchestrator[s].directory_scanners =
              InitDirectoryScanners(orchestrator[s].request)
        /\ result[s].scan_id = s
        /\ Elems(frame[s].professional_vulns) \cup Elems(frame[s].regex_vulns)
              \cup Elems(result[s].vulnerabilities) \subseteq OwnFindings(s)
        /\ \A k \in 1..Len(trace[s].calls) :
              trace[s].calls[k][1] \in
                  Elems(orchestrator[s].scanners)
                    \cup Elems(orchestrator[s].directory_scanners)

\* C20 witness: both scans are in their file loops at once, each holding a
\* working copy, on different repositories, and one has collected a finding.
C20_Witness ==
    /\ \A s \in ScanIds :
          HoldsWorkingCopy(s) /\ frame[s].pc = "file_scanners"
    /\ orchestrator[1].request.clone_url # orchestrator[2].request.clone_url
    /\ frame[1].regex_vulns # <<>>

=============================================================================
